---- MODULE Spec2Model ----
(***************************************************************************)
(* Lumos language: a model of the interpreter pipeline (Lexer -> Parser -> *)
(* Evaluator, driven by LumosEngine.execute) and of the compiler's         *)
(* Optimizer passes over the flat IR.                                      *)
(*                                                                         *)
(* JavaScript values are records tagged by the field t.  Numbers are exact *)
(* rationals num/den in lowest terms (den = 0 encodes NaN and +-Infinity), *)
(* so that "/" is not confused with integer division.                      *)
(***************************************************************************)
EXTENDS Integers, Sequences, FiniteSets, TLC

(***************************************************************************)
(* Bounds of the model                                                     *)
(***************************************************************************)
\* the ceiling of evaluateWhileStatement, 1000000 in the code
maxIterations == 3
\* the iterations of one for-loop the model follows
MaxForIterations == 6
\* the execute calls made on the engine
MaxCalls == 3
\* the largest bound written in the for-loops followed step by step
MaxEnd == 3
\* the instructions emitted into one IR sequence
MaxIR == 3
\* the optimizer passes applied to one IR sequence
MaxPasses == 2

(***************************************************************************)
(* JavaScript values                                                       *)
(***************************************************************************)
Abs(n) == IF n < 0 THEN -n ELSE n

RECURSIVE Gcd(_, _)
Gcd(a, b) == IF b = 0 THEN a ELSE Gcd(b, a % b)

\* a number num/den brought to lowest terms with den >= 0
Rat(n, d) ==
  IF d = 0 THEN [t |-> "number", num |-> (IF n > 0 THEN 1 ELSE IF n < 0 THEN -1 ELSE 0), den |-> 0]
  ELSE LET s == IF d < 0 THEN -1 ELSE 1
           g == Gcd(Abs(n), Abs(d))
       IN [t |-> "number", num |-> (s * n) \div g, den |-> (s * d) \div g]

Num(n) == [t |-> "number", num |-> n, den |-> 1]
NaN == [t |-> "number", num |-> 0, den |-> 0]
Str(s) == [t |-> "string", s |-> s]
Bool(b) == [t |-> "boolean", b |-> b]
Null == [t |-> "null"]
Undefined == [t |-> "undefined"]
\* a value of a kind whose JavaScript semantics the model does not cover
Unmodelled == [t |-> "unmodelled"]

IsNumber(v) == v.t = "number"
IsNaN(v) == v.t = "number" /\ v.den = 0 /\ v.num = 0
IsFinite(v) == v.t = "number" /\ v.den # 0

RECURSIVE Pow10(_)
Pow10(k) == IF k <= 0 THEN 1 ELSE 10 * Pow10(k - 1)

\* LET x == v IN e, written Let(v, LAMBDA x : e): a local constant of the code
Let(v, In(_)) == In(v)

(***************************************************************************)
(* Lexer                                                                   *)
(* The input is the source text as a sequence of one-character strings.    *)
(* A lexer state lx is the Lexer object: position (0-based as in the       *)
(* code), line, column and the tokens pushed so far.                       *)
(***************************************************************************)
Letters == {"a","b","c","d","e","f","g","h","i","j","k","l","m","n","o","p","q","r","s","t","u","v","w","x","y","z",
            "A","B","C","D","E","F","G","H","I","J","K","L","M","N","O","P","Q","R","S","T","U","V","W","X","Y","Z","_"}
Digits == {"0","1","2","3","4","5","6","7","8","9"}
Whitespace == {" ", "\n", "\t", "\r"}

\* what input[position] yields past the end of the string
NoChar == "<undefined>"

Token(type, value, line, column) == [type |-> type, value |-> value, line |-> line, column |-> column]

Lexer(input) == [input |-> input, position |-> 0, line |-> 1, column |-> 1, tokens |-> <<>>]

current(lx) == IF lx.position < Len(lx.input) THEN lx.input[lx.position + 1] ELSE NoChar

peek(lx) == IF lx.position + 1 < Len(lx.input) THEN lx.input[lx.position + 2] ELSE NoChar

advance(lx) ==
  [lx EXCEPT !.position = @ + 1,
             !.line = IF current(lx) = "\n" THEN @ + 1 ELSE @,
             !.column = IF current(lx) = "\n" THEN 1 ELSE @ + 1]

isLetter(char) == char \in Letters
isDigit(char) == char \in Digits
isAlphaNumeric(char) == isLetter(char) \/ isDigit(char)

RECURSIVE skipWhitespace(_)
skipWhitespace(lx) ==
  IF lx.position < Len(lx.input) /\ current(lx) \in Whitespace
  THEN skipWhitespace(advance(lx)) ELSE lx

RECURSIVE skipLineComment(_)
skipLineComment(lx) ==
  IF lx.position < Len(lx.input) /\ current(lx) # "\n"
  THEN skipLineComment(advance(lx)) ELSE lx

RECURSIVE skipBlockCommentLoop(_)
skipBlockCommentLoop(lx) ==
  IF lx.position < Len(lx.input)
  THEN IF current(lx) = "*" /\ peek(lx) = "/"
       THEN advance(advance(lx))
       ELSE skipBlockCommentLoop(advance(lx))
  ELSE lx

skipBlockComment(lx) == skipBlockCommentLoop(advance(advance(lx)))

\* input.substring(from, to) as one string
RECURSIVE substring(_, _, _)
substring(input, from, to) ==
  IF from >= to THEN "" ELSE input[from + 1] \o substring(input, from + 1, to)

keywords ==
  {"let", "const", "var", "def", "function", "return",
   "if", "else", "elsif", "elif", "while", "for", "do", "end",
   "break", "continue", "times", "to", "in", "of",
   "class", "struct", "interface", "trait", "module",
   "import", "export", "from", "as", "with",
   "try", "catch", "finally", "throw", "raise",
   "true", "false", "null", "nil", "undefined",
   "and", "or", "not", "is", "new", "delete",
   "async", "await", "yield", "lambda", "match", "case",
   "public", "private", "protected", "static", "final"}

\* value.toUpperCase() for the keywords the grammar uses; the other
\* keywords are never expected by the parser, whatever their type name
toUpperCase(value) ==
  CASE value = "let" -> "LET" [] value = "const" -> "CONST" [] value = "var" -> "VAR"
    [] value = "def" -> "DEF" [] value = "function" -> "FUNCTION" [] value = "return" -> "RETURN"
    [] value = "if" -> "IF" [] value = "else" -> "ELSE" [] value = "elsif" -> "ELSIF"
    [] value = "elif" -> "ELIF" [] value = "while" -> "WHILE" [] value = "for" -> "FOR"
    [] value = "break" -> "BREAK" [] value = "continue" -> "CONTINUE" [] value = "to" -> "TO"
    [] value = "class" -> "CLASS" [] value = "import" -> "IMPORT" [] value = "from" -> "FROM"
    [] value = "as" -> "AS" [] value = "try" -> "TRY" [] value = "catch" -> "CATCH"
    [] value = "finally" -> "FINALLY" [] value = "true" -> "TRUE" [] value = "false" -> "FALSE"
    [] value = "null" -> "NULL" [] value = "nil" -> "NIL" [] value = "and" -> "AND"
    [] value = "or" -> "OR" [] value = "not" -> "NOT"
    [] OTHER -> "KEYWORD:" \o value

RECURSIVE readIdentifierLoop(_)
readIdentifierLoop(lx) ==
  IF lx.position < Len(lx.input) /\ isAlphaNumeric(current(lx))
  THEN readIdentifierLoop(advance(lx)) ELSE lx

\* returns the lexer after the lexeme, with the token pushed
readIdentifierOrKeyword(lx) ==
  Let(readIdentifierLoop(lx), LAMBDA after :
  Let(substring(lx.input, lx.position, after.position), LAMBDA value :
  Let(IF value \in keywords THEN toUpperCase(value) ELSE "IDENTIFIER", LAMBDA type :
  [after EXCEPT !.tokens = Append(@, Token(type, value, lx.line, lx.column))])))

RECURSIVE readDigits(_)
readDigits(lx) ==
  IF lx.position < Len(lx.input) /\ isDigit(current(lx))
  THEN readDigits(advance(lx)) ELSE lx

DigitValue(c) ==
  CASE c = "0" -> 0 [] c = "1" -> 1 [] c = "2" -> 2 [] c = "3" -> 3 [] c = "4" -> 4
    [] c = "5" -> 5 [] c = "6" -> 6 [] c = "7" -> 7 [] c = "8" -> 8 [] c = "9" -> 9

\* the integer written by the digits input[from+1 .. to]
RECURSIVE digitsValue(_, _, _)
digitsValue(input, from, to) ==
  IF from >= to THEN 0
  ELSE digitsValue(input, from, to - 1) * 10 + DigitValue(input[to])

\* parseFloat of the lexeme input[start+1 .. end]: integer part, optional
\* fraction, optional exponent (an exponent without digits is ignored)
parseFloat(input, start, intEnd, fracEnd, expStart, end) ==
  Let(digitsValue(input, start, intEnd), LAMBDA ip :
  Let(IF fracEnd > intEnd THEN fracEnd - intEnd - 1 ELSE 0, LAMBDA fd :
  Let(IF fd > 0 THEN digitsValue(input, intEnd + 1, fracEnd) ELSE 0, LAMBDA fp :
  Let(Rat(ip * Pow10(fd) + fp, Pow10(fd)), LAMBDA mant :
  Let(expStart < end, LAMBDA hasExp :
  Let(hasExp /\ input[expStart] = "-", LAMBDA neg :
  Let(IF hasExp THEN digitsValue(input, expStart, end) ELSE 0, LAMBDA ex :
  IF ~hasExp THEN mant
  ELSE IF neg THEN Rat(mant.num, mant.den * Pow10(ex))
  ELSE Rat(mant.num * Pow10(ex), mant.den))))))))

readNumber(lx) ==
  Let(readDigits(lx), LAMBDA a :
  Let(IF current(a) = "." /\ isDigit(peek(a)) THEN readDigits(advance(a)) ELSE a, LAMBDA b :
  Let(IF current(b) = "e" \/ current(b) = "E" THEN advance(b) ELSE b, LAMBDA e1 :
  Let(IF e1.position > b.position /\ (current(e1) = "+" \/ current(e1) = "-")
      THEN advance(e1) ELSE e1, LAMBDA e2 :
  Let(IF e1.position > b.position THEN readDigits(e2) ELSE b, LAMBDA c :
  Let(parseFloat(lx.input, lx.position, a.position, b.position, e2.position, c.position), LAMBDA value :
  [c EXCEPT !.tokens = Append(@, Token("NUMBER", value, lx.line, lx.column))]))))))

escapeMap(c) ==
  CASE c = "n" -> "\n" [] c = "t" -> "\t" [] c = "r" -> "\r" [] OTHER -> c

\* the loop of readString: the lexer at the closing quote or at the end of
\* the input, and the string value read
RECURSIVE readStringLoop(_, _, _)
readStringLoop(lx, quote, value) ==
  IF lx.position < Len(lx.input) /\ current(lx) # quote
  THEN IF current(lx) = "\\"
       THEN Let(advance(lx), LAMBDA esc :
            readStringLoop(advance(esc), quote, value \o escapeMap(current(esc))))
       ELSE readStringLoop(advance(lx), quote, value \o current(lx))
  ELSE [lx |-> lx, value |-> value]

\* [ok, lx, msg]: ok = FALSE is the thrown "Unterminated string" error
readString(lx, quote) ==
  Let(readStringLoop(advance(lx), quote, ""), LAMBDA r :
  IF current(r.lx) # quote
  THEN [ok |-> FALSE, lx |-> r.lx, msg |-> "Unterminated string"]
  ELSE [ok |-> TRUE,
        lx |-> [advance(r.lx) EXCEPT !.tokens = Append(@, Token("STRING", r.value, lx.line, lx.column))],
        msg |-> ""])

twoCharOps ==
  [x \in {"==", "!=", "<=", ">=", "&&", "||", "++", "--", "+=", "-=", "*=", "/=", "=>", "->", "::", ".."} |->
     CASE x = "==" -> "EQ" [] x = "!=" -> "NEQ" [] x = "<=" -> "LTE" [] x = ">=" -> "GTE"
       [] x = "&&" -> "AND" [] x = "||" -> "OR" [] x = "++" -> "INCREMENT" [] x = "--" -> "DECREMENT"
       [] x = "+=" -> "PLUS_ASSIGN" [] x = "-=" -> "MINUS_ASSIGN" [] x = "*=" -> "MULT_ASSIGN"
       [] x = "/=" -> "DIV_ASSIGN" [] x = "=>" -> "ARROW" [] x = "->" -> "ARROW"
       [] x = "::" -> "SCOPE" [] x = ".." -> "RANGE"]

oneCharOps ==
  [x \in {"+", "-", "*", "/", "%", "=", "<", ">", "!", "(", ")", "{", "}", "[", "]", ",", ";",
          ":", ".", "|", "&", "^", "~", "?"} |->
     CASE x = "+" -> "PLUS" [] x = "-" -> "MINUS" [] x = "*" -> "MULT" [] x = "/" -> "DIV"
       [] x = "%" -> "MOD" [] x = "=" -> "ASSIGN" [] x = "<" -> "LT" [] x = ">" -> "GT"
       [] x = "!" -> "NOT" [] x = "(" -> "LPAREN" [] x = ")" -> "RPAREN" [] x = "{" -> "LBRACE"
       [] x = "}" -> "RBRACE" [] x = "[" -> "LBRACKET" [] x = "]" -> "RBRACKET" [] x = "," -> "COMMA"
       [] x = ";" -> "SEMICOLON" [] x = ":" -> "COLON" [] x = "." -> "DOT" [] x = "|" -> "PIPE"
       [] x = "&" -> "AMPERSAND" [] x = "^" -> "XOR" [] x = "~" -> "TILDE" [] x = "?" -> "QUESTION"]

\* a readOperator that advances over one character of a two-character
\* operator only
readOperatorAdvanceOnce(lx) ==
  Let(current(lx), LAMBDA char :
  Let(char \o peek(lx), LAMBDA twoChar :
  IF twoChar \in DOMAIN twoCharOps
  THEN [ok |-> TRUE,
        lx |-> [advance(lx) EXCEPT
                  !.tokens = Append(@, Token(twoCharOps[twoChar], twoChar, lx.line, lx.column))]]
  ELSE IF char \in DOMAIN oneCharOps
  THEN [ok |-> TRUE,
        lx |-> [advance(lx) EXCEPT
                  !.tokens = Append(@, Token(oneCharOps[char], char, lx.line, lx.column))]]
  ELSE [ok |-> FALSE, lx |-> lx]))

\* [ok, lx]: ok = FALSE is the "return null" of readOperator
readOperator(lx) ==
  Let(current(lx), LAMBDA char :
  Let(char \o peek(lx), LAMBDA twoChar :
  IF twoChar \in DOMAIN twoCharOps
  THEN [ok |-> TRUE,
        lx |-> [advance(advance(lx)) EXCEPT
                  !.tokens = Append(@, Token(twoCharOps[twoChar], twoChar, lx.line, lx.column))]]
  ELSE IF char \in DOMAIN oneCharOps
  THEN [ok |-> TRUE,
        lx |-> [advance(lx) EXCEPT
                  !.tokens = Append(@, Token(oneCharOps[char], char, lx.line, lx.column))]]
  ELSE [ok |-> FALSE, lx |-> lx]))

\* the lexer after a turn of the loop of tokenize that threw nothing
Lexed(lx) == [ok |-> TRUE, lx |-> lx, msg |-> ""]

\* one turn of the loop of tokenize: whitespace is skipped, then one token
\* or one comment is read; [ok, lx, msg], ok = FALSE is the thrown error
tokenizeStep(lx0) ==
  Let(skipWhitespace(lx0), LAMBDA lx :
  Let(current(lx), LAMBDA char :
  IF lx.position >= Len(lx.input) THEN Lexed(lx)
  ELSE IF isLetter(char) THEN Lexed(readIdentifierOrKeyword(lx))
  ELSE IF isDigit(char) THEN Lexed(readNumber(lx))
  ELSE IF char = "\"" \/ char = "'" THEN readString(lx, char)
  ELSE IF char = "/" /\ peek(lx) = "/" THEN Lexed(skipLineComment(lx))
  ELSE IF char = "/" /\ peek(lx) = "*" THEN Lexed(skipBlockComment(lx))
  ELSE Let(readOperator(lx), LAMBDA operator :
       IF operator.ok THEN Lexed(operator.lx)
       ELSE [ok |-> FALSE, lx |-> lx, msg |-> "Unexpected character '" \o char \o "'"])))

\* the loop of tokenize: while (this.position < this.input.length), left by
\* a thrown error as well
RECURSIVE tokenizeLoop(_)
tokenizeLoop(r) ==
  IF r.ok /\ r.lx.position < Len(r.lx.input) THEN tokenizeLoop(tokenizeStep(r.lx)) ELSE r

\* [ok, tokens, msg]: the token list ending with EOF, or the thrown error
tokenize(input) ==
  Let(tokenizeLoop(Lexed(Lexer(input))), LAMBDA r :
  IF r.ok
  THEN [ok |-> TRUE, tokens |-> Append(r.lx.tokens, Token("EOF", Null, r.lx.line, r.lx.column)), msg |-> ""]
  ELSE [ok |-> FALSE, tokens |-> <<>>, msg |-> r.msg])

(***************************************************************************)
(* Parser (src/core/parser.js)                                             *)
(* ts is the token list and p the parser's position (0-based as in the     *)
(* code).  A parsing function yields [ok, node, pos, msg]: the node built  *)
(* and the position reached, or (ok = FALSE) the thrown error.  AST nodes  *)
(* are the ASTNode records of the code; an absent child (null in the code) *)
(* is NullNode, an absent statement list is flagged by a has... field.     *)
(***************************************************************************)
NullNode == [type |-> "null"]

POk(node, pos) == [ok |-> TRUE, node |-> node, pos |-> pos, msg |-> ""]
PErr(msg) == [ok |-> FALSE, node |-> NullNode, pos |-> 0, msg |-> msg]

isAtEnd(ts, p) == p >= Len(ts)
peekToken(ts, p) == ts[p + 1]
previous(ts, p) == ts[p]
check(ts, p, type) == ~isAtEnd(ts, p) /\ peekToken(ts, p).type = type
\* match(...types): TRUE when the parser advances over one token
match(ts, p, types) == ~isAtEnd(ts, p) /\ peekToken(ts, p).type \in types
\* consume(type, message): the position after the token, or the error
consume(ts, p, type, message) ==
  IF check(ts, p, type) THEN POk(peekToken(ts, p), p + 1)
  ELSE IF isAtEnd(ts, p) THEN PErr("TypeError: Cannot read properties of undefined")
  ELSE PErr(message)
consumeOptional(ts, p, type) == IF check(ts, p, type) THEN p + 1 ELSE p

RECURSIVE statement(_, _), block(_, _), blockLoop(_, _, _), expression(_, _),
          assignment(_, _), logicalOr(_, _), logicalOrLoop(_, _, _),
          logicalAnd(_, _), logicalAndLoop(_, _, _), equality(_, _), equalityLoop(_, _, _),
          comparison(_, _), comparisonLoop(_, _, _), term(_, _), termLoop(_, _, _),
          factor(_, _), factorLoop(_, _, _), unary(_, _), postfix(_, _), postfixLoop(_, _, _),
          primary(_, _), expressionList(_, _, _), parameterList(_, _, _),
          objectProperties(_, _, _), elifLoop(_, _, _),
          functionDeclaration(_, _), ifStatement(_, _), whileStatement(_, _),
          forStatement(_, _), tryStatement(_, _)

\* do { list.push(this.expression()) } while (this.match('COMMA'))
expressionList(ts, p, acc) ==
  Let(expression(ts, p), LAMBDA e :
  IF ~e.ok THEN e
  ELSE IF match(ts, e.pos, {"COMMA"}) THEN expressionList(ts, e.pos + 1, Append(acc, e.node))
  ELSE POk(Append(acc, e.node), e.pos))

variableDeclaration(ts, p) ==
  Let(previous(ts, p).value, LAMBDA keyword :
  Let(consume(ts, p, "IDENTIFIER", "Expected variable name"), LAMBDA name :
  IF ~name.ok THEN name
  ELSE Let(IF match(ts, name.pos, {"ASSIGN"}) THEN expression(ts, name.pos + 1)
           ELSE POk(NullNode, name.pos), LAMBDA init :
       IF ~init.ok THEN init
       ELSE POk([type |-> "VariableDeclaration", keyword |-> keyword,
                 name |-> name.node.value, initializer |-> init.node],
                consumeOptional(ts, init.pos, "SEMICOLON")))))

\* do { parameters.push(consume IDENTIFIER) } while (this.match('COMMA'))
parameterList(ts, p, acc) ==
  Let(consume(ts, p, "IDENTIFIER", "Expected parameter name"), LAMBDA c :
  IF ~c.ok THEN c
  ELSE IF match(ts, c.pos, {"COMMA"}) THEN parameterList(ts, c.pos + 1, Append(acc, c.node.value))
  ELSE POk(Append(acc, c.node.value), c.pos))

functionDeclaration(ts, p) ==
  Let(consume(ts, p, "IDENTIFIER", "Expected function name"), LAMBDA name :
  IF ~name.ok THEN name ELSE
  Let(consume(ts, name.pos, "LPAREN", "Expected ( after function name"), LAMBDA lp :
  IF ~lp.ok THEN lp ELSE
  Let(IF ~check(ts, lp.pos, "RPAREN") THEN parameterList(ts, lp.pos, <<>>)
      ELSE POk(<<>>, lp.pos), LAMBDA parameters :
  IF ~parameters.ok THEN parameters ELSE
  Let(consume(ts, parameters.pos, "RPAREN", "Expected ) after parameters"), LAMBDA rp :
  IF ~rp.ok THEN rp ELSE
  Let(consume(ts, rp.pos, "LBRACE", "Expected { before function body"), LAMBDA lb :
  IF ~lb.ok THEN lb ELSE
  Let(block(ts, lb.pos), LAMBDA body :
  IF ~body.ok THEN body
  ELSE POk([type |-> "FunctionDeclaration", name |-> name.node.value,
            parameters |-> parameters.node, body |-> body.node], body.pos)))))))

tryStatement(ts, p) ==
  Let(consume(ts, p, "LBRACE", "Expected { after try"), LAMBDA lb :
  IF ~lb.ok THEN lb ELSE
  Let(block(ts, lb.pos), LAMBDA tryBlock :
  IF ~tryBlock.ok THEN tryBlock ELSE
  Let(match(ts, tryBlock.pos, {"CATCH"}), LAMBDA hasCatch :
  Let(IF hasCatch THEN tryBlock.pos + 1 ELSE tryBlock.pos, LAMBDA p1 :
  Let(hasCatch /\ match(ts, p1, {"LPAREN"}), LAMBDA hasParam :
  Let(IF hasParam THEN consume(ts, p1 + 1, "IDENTIFIER", "Expected parameter name")
      ELSE POk(NullNode, p1), LAMBDA param :
  IF ~param.ok THEN param ELSE
  Let(IF hasParam THEN consume(ts, param.pos, "RPAREN", "Expected )") ELSE POk(NullNode, p1), LAMBDA rp :
  IF ~rp.ok THEN rp ELSE
  Let(IF hasCatch THEN consume(ts, rp.pos, "LBRACE", "Expected {") ELSE POk(NullNode, p1), LAMBDA clb :
  IF ~clb.ok THEN clb ELSE
  Let(IF hasCatch THEN block(ts, clb.pos) ELSE POk(<<>>, p1), LAMBDA catchBlock :
  IF ~catchBlock.ok THEN catchBlock ELSE
  Let([present |-> hasCatch, hasParameter |-> hasParam,
       parameter |-> IF hasParam THEN param.node.value ELSE "",
       body |-> catchBlock.node], LAMBDA catchClause :
  Let(match(ts, catchBlock.pos, {"FINALLY"}), LAMBDA hasFinally :
  Let(IF hasFinally THEN consume(ts, catchBlock.pos + 1, "LBRACE", "Expected {")
      ELSE POk(NullNode, catchBlock.pos), LAMBDA flb :
  IF ~flb.ok THEN flb ELSE
  Let(IF hasFinally THEN block(ts, flb.pos) ELSE POk(<<>>, catchBlock.pos), LAMBDA finallyBlock :
  IF ~finallyBlock.ok THEN finallyBlock
  ELSE POk([type |-> "TryStatement", tryBlock |-> tryBlock.node, catchClause |-> catchClause,
            hasFinally |-> hasFinally, finallyBlock |-> finallyBlock.node], finallyBlock.pos))))))))))))))

\* while (this.match('ELSIF', 'ELIF')) { ... elifBranches.push(...) }
elifLoop(ts, p, acc) ==
  IF ~match(ts, p, {"ELSIF", "ELIF"}) THEN POk(acc, p) ELSE
  Let(consume(ts, p + 1, "LPAREN", "Expected ("), LAMBDA lp :
  IF ~lp.ok THEN lp ELSE
  Let(expression(ts, lp.pos), LAMBDA cond :
  IF ~cond.ok THEN cond ELSE
  Let(consume(ts, cond.pos, "RPAREN", "Expected )"), LAMBDA rp :
  IF ~rp.ok THEN rp ELSE
  Let(consume(ts, rp.pos, "LBRACE", "Expected {"), LAMBDA lb :
  IF ~lb.ok THEN lb ELSE
  Let(block(ts, lb.pos), LAMBDA body :
  IF ~body.ok THEN body
  ELSE elifLoop(ts, body.pos, Append(acc, [condition |-> cond.node, body |-> body.node])))))))

ifStatement(ts, p) ==
  Let(consume(ts, p, "LPAREN", "Expected ( after if"), LAMBDA lp :
  IF ~lp.ok THEN lp ELSE
  Let(expression(ts, lp.pos), LAMBDA condition :
  IF ~condition.ok THEN condition ELSE
  Let(consume(ts, condition.pos, "RPAREN", "Expected ) after condition"), LAMBDA rp :
  IF ~rp.ok THEN rp ELSE
  Let(consume(ts, rp.pos, "LBRACE", "Expected { after condition"), LAMBDA lb :
  IF ~lb.ok THEN lb ELSE
  Let(block(ts, lb.pos), LAMBDA thenBranch :
  IF ~thenBranch.ok THEN thenBranch ELSE
  Let(elifLoop(ts, thenBranch.pos, <<>>), LAMBDA elifBranches :
  IF ~elifBranches.ok THEN elifBranches ELSE
  Let(match(ts, elifBranches.pos, {"ELSE"}), LAMBDA hasElse :
  Let(IF hasElse THEN consume(ts, elifBranches.pos + 1, "LBRACE", "Expected {")
      ELSE POk(NullNode, elifBranches.pos), LAMBDA elb :
  IF ~elb.ok THEN elb ELSE
  Let(IF hasElse THEN block(ts, elb.pos) ELSE POk(<<>>, elifBranches.pos), LAMBDA elseBranch :
  IF ~elseBranch.ok THEN elseBranch
  ELSE POk([type |-> "IfStatement", condition |-> condition.node, thenBranch |-> thenBranch.node,
            elifBranches |-> elifBranches.node, hasElse |-> hasElse,
            elseBranch |-> elseBranch.node], elseBranch.pos))))))))))

whileStatement(ts, p) ==
  Let(consume(ts, p, "LPAREN", "Expected ( after while"), LAMBDA lp :
  IF ~lp.ok THEN lp ELSE
  Let(expression(ts, lp.pos), LAMBDA condition :
  IF ~condition.ok THEN condition ELSE
  Let(consume(ts, condition.pos, "RPAREN", "Expected ) after condition"), LAMBDA rp :
  IF ~rp.ok THEN rp ELSE
  Let(consume(ts, rp.pos, "LBRACE", "Expected { after condition"), LAMBDA lb :
  IF ~lb.ok THEN lb ELSE
  Let(block(ts, lb.pos), LAMBDA body :
  IF ~body.ok THEN body
  ELSE POk([type |-> "WhileStatement", condition |-> condition.node, body |-> body.node], body.pos))))))

forStatement(ts, p) ==
  Let(consume(ts, p, "IDENTIFIER", "Expected iterator variable"), LAMBDA iterator :
  IF ~iterator.ok THEN iterator ELSE
  Let(consume(ts, iterator.pos, "ASSIGN", "Expected ="), LAMBDA eq :
  IF ~eq.ok THEN eq ELSE
  Let(expression(ts, eq.pos), LAMBDA start :
  IF ~start.ok THEN start ELSE
  Let(consume(ts, start.pos, "TO", "Expected to"), LAMBDA to :
  IF ~to.ok THEN to ELSE
  Let(expression(ts, to.pos), LAMBDA end :
  IF ~end.ok THEN end ELSE
  \* match('IDENTIFIER') consumes the identifier whether or not it is `step`
  Let(match(ts, end.pos, {"IDENTIFIER"}), LAMBDA ident :
  Let(IF ident THEN end.pos + 1 ELSE end.pos, LAMBDA p1 :
  Let(IF ident /\ previous(ts, p1).value = "step" THEN expression(ts, p1)
      ELSE POk([type |-> "Literal", value |-> Num(1)], p1), LAMBDA step :
  IF ~step.ok THEN step ELSE
  Let(consume(ts, step.pos, "LBRACE", "Expected {"), LAMBDA lb :
  IF ~lb.ok THEN lb ELSE
  Let(block(ts, lb.pos), LAMBDA body :
  IF ~body.ok THEN body
  ELSE POk([type |-> "ForStatement", iterator |-> iterator.node.value, start |-> start.node,
            end |-> end.node, step |-> step.node, body |-> body.node], body.pos)))))))))))

returnStatement(ts, p) ==
  Let(IF ~check(ts, p, "SEMICOLON") /\ ~check(ts, p, "RBRACE") THEN expression(ts, p)
      ELSE POk(NullNode, p), LAMBDA value :
  IF ~value.ok THEN value
  ELSE POk([type |-> "ReturnStatement", value |-> value.node],
           consumeOptional(ts, value.pos, "SEMICOLON")))

expressionStatement(ts, p) ==
  Let(expression(ts, p), LAMBDA expr :
  IF ~expr.ok THEN expr
  ELSE POk([type |-> "ExpressionStatement", expression |-> expr.node],
           consumeOptional(ts, expr.pos, "SEMICOLON")))

\* class and import statements are outside the modelled language
statement(ts, p) ==
  IF match(ts, p, {"LET", "CONST", "VAR"}) THEN variableDeclaration(ts, p + 1)
  ELSE IF match(ts, p, {"DEF", "FUNCTION"}) THEN functionDeclaration(ts, p + 1)
  ELSE IF match(ts, p, {"IF"}) THEN ifStatement(ts, p + 1)
  ELSE IF match(ts, p, {"WHILE"}) THEN whileStatement(ts, p + 1)
  ELSE IF match(ts, p, {"FOR"}) THEN forStatement(ts, p + 1)
  ELSE IF match(ts, p, {"RETURN"}) THEN returnStatement(ts, p + 1)
  ELSE IF match(ts, p, {"BREAK"}) THEN POk([type |-> "Break"], p + 1)
  ELSE IF match(ts, p, {"CONTINUE"}) THEN POk([type |-> "Continue"], p + 1)
  ELSE IF match(ts, p, {"TRY"}) THEN tryStatement(ts, p + 1)
  ELSE expressionStatement(ts, p)

blockLoop(ts, p, statements) ==
  IF ~check(ts, p, "RBRACE") /\ ~isAtEnd(ts, p)
  THEN Let(statement(ts, p), LAMBDA s :
       IF ~s.ok THEN s ELSE blockLoop(ts, s.pos, Append(statements, s.node)))
  ELSE Let(consume(ts, p, "RBRACE", "Expected } after block"), LAMBDA rb :
       IF ~rb.ok THEN rb ELSE POk(statements, rb.pos))

block(ts, p) == blockLoop(ts, p, <<>>)

expression(ts, p) == assignment(ts, p)

assignment(ts, p) ==
  Let(logicalOr(ts, p), LAMBDA expr :
  IF ~expr.ok THEN expr
  ELSE IF match(ts, expr.pos, {"ASSIGN", "PLUS_ASSIGN", "MINUS_ASSIGN", "MULT_ASSIGN", "DIV_ASSIGN"})
  THEN Let(previous(ts, expr.pos + 1).value, LAMBDA operator :
       Let(assignment(ts, expr.pos + 1), LAMBDA value :
       IF ~value.ok THEN value
       ELSE POk([type |-> "Assignment", target |-> expr.node, operator |-> operator,
                 value |-> value.node], value.pos)))
  ELSE expr)

BinaryExpression(left, operator, right) ==
  [type |-> "BinaryExpression", left |-> left, operator |-> operator, right |-> right]

\* let expr = next(); while (match(operators)) { operator = previous().value;
\* right = next(); expr = BinaryExpression(expr, operator, right) }: the loop
\* of a binary level reads one operand a turn; left is <<>> at the first
\* operand and <<expr, operator>> at the operand after an operator
Operand(left, node) ==
  IF left = <<>> THEN node ELSE BinaryExpression(left[1], left[2], node)

logicalOrLoop(ts, p, left) ==
  Let(logicalAnd(ts, p), LAMBDA operand :
  IF ~operand.ok THEN operand ELSE
  Let(Operand(left, operand.node), LAMBDA expr :
  IF match(ts, operand.pos, {"OR"})
  THEN logicalOrLoop(ts, operand.pos + 1, <<expr, previous(ts, operand.pos + 1).value>>)
  ELSE POk(expr, operand.pos)))

logicalOr(ts, p) == logicalOrLoop(ts, p, <<>>)

logicalAndLoop(ts, p, left) ==
  Let(equality(ts, p), LAMBDA operand :
  IF ~operand.ok THEN operand ELSE
  Let(Operand(left, operand.node), LAMBDA expr :
  IF match(ts, operand.pos, {"AND"})
  THEN logicalAndLoop(ts, operand.pos + 1, <<expr, previous(ts, operand.pos + 1).value>>)
  ELSE POk(expr, operand.pos)))

logicalAnd(ts, p) == logicalAndLoop(ts, p, <<>>)

equalityLoop(ts, p, left) ==
  Let(comparison(ts, p), LAMBDA operand :
  IF ~operand.ok THEN operand ELSE
  Let(Operand(left, operand.node), LAMBDA expr :
  IF match(ts, operand.pos, {"EQ", "NEQ"})
  THEN equalityLoop(ts, operand.pos + 1, <<expr, previous(ts, operand.pos + 1).value>>)
  ELSE POk(expr, operand.pos)))

equality(ts, p) == equalityLoop(ts, p, <<>>)

comparisonLoop(ts, p, left) ==
  Let(term(ts, p), LAMBDA operand :
  IF ~operand.ok THEN operand ELSE
  Let(Operand(left, operand.node), LAMBDA expr :
  IF match(ts, operand.pos, {"GT", "GTE", "LT", "LTE"})
  THEN comparisonLoop(ts, operand.pos + 1, <<expr, previous(ts, operand.pos + 1).value>>)
  ELSE POk(expr, operand.pos)))

comparison(ts, p) == comparisonLoop(ts, p, <<>>)

\* an additive level that reads its right operand as a whole additive
\* expression: a - b - c becomes a - (b - c)
termRightAssociative(ts, p) ==
  Let(factor(ts, p), LAMBDA operand :
  IF ~operand.ok THEN operand
  ELSE IF match(ts, operand.pos, {"PLUS", "MINUS"})
  THEN Let(term(ts, operand.pos + 1), LAMBDA right :
       IF ~right.ok THEN right
       ELSE POk(BinaryExpression(operand.node, previous(ts, operand.pos + 1).value, right.node),
                right.pos))
  ELSE operand)

termLoop(ts, p, left) ==
  Let(factor(ts, p), LAMBDA operand :
  IF ~operand.ok THEN operand ELSE
  Let(Operand(left, operand.node), LAMBDA expr :
  IF match(ts, operand.pos, {"PLUS", "MINUS"})
  THEN termLoop(ts, operand.pos + 1, <<expr, previous(ts, operand.pos + 1).value>>)
  ELSE POk(expr, operand.pos)))

term(ts, p) == termLoop(ts, p, <<>>)

factorLoop(ts, p, left) ==
  Let(unary(ts, p), LAMBDA operand :
  IF ~operand.ok THEN operand ELSE
  Let(Operand(left, operand.node), LAMBDA expr :
  IF match(ts, operand.pos, {"MULT", "DIV", "MOD"})
  THEN factorLoop(ts, operand.pos + 1, <<expr, previous(ts, operand.pos + 1).value>>)
  ELSE POk(expr, operand.pos)))

factor(ts, p) == factorLoop(ts, p, <<>>)

unary(ts, p) ==
  IF match(ts, p, {"NOT", "MINUS", "PLUS"})
  THEN Let(unary(ts, p + 1), LAMBDA operand :
       IF ~operand.ok THEN operand
       ELSE POk([type |-> "UnaryExpression", operator |-> previous(ts, p + 1).value,
                 operand |-> operand.node], operand.pos))
  ELSE postfix(ts, p)

postfixLoop(ts, p, expr) ==
  IF match(ts, p, {"LPAREN"})
  THEN Let(IF ~check(ts, p + 1, "RPAREN") THEN expressionList(ts, p + 1, <<>>)
           ELSE POk(<<>>, p + 1), LAMBDA args :
       IF ~args.ok THEN args ELSE
       Let(consume(ts, args.pos, "RPAREN", "Expected ) after arguments"), LAMBDA rp :
       IF ~rp.ok THEN rp
       ELSE postfixLoop(ts, rp.pos, [type |-> "CallExpression", callee |-> expr,
                                     arguments |-> args.node])))
  ELSE IF match(ts, p, {"LBRACKET"})
  THEN Let(expression(ts, p + 1), LAMBDA index :
       IF ~index.ok THEN index ELSE
       Let(consume(ts, index.pos, "RBRACKET", "Expected ]"), LAMBDA rb :
       IF ~rb.ok THEN rb
       ELSE postfixLoop(ts, rb.pos, [type |-> "IndexExpression", object |-> expr,
                                     index |-> index.node])))
  ELSE IF match(ts, p, {"DOT"})
  THEN Let(consume(ts, p + 1, "IDENTIFIER", "Expected property name"), LAMBDA property :
       IF ~property.ok THEN property
       ELSE postfixLoop(ts, property.pos, [type |-> "MemberExpression", object |-> expr,
                                           property |-> property.node.value]))
  ELSE POk(expr, p)

postfix(ts, p) ==
  Let(primary(ts, p), LAMBDA expr :
  IF ~expr.ok THEN expr ELSE postfixLoop(ts, expr.pos, expr.node))

\* do { key : value } while (this.match('COMMA'))
objectProperties(ts, p, acc) ==
  Let(consume(ts, p, "IDENTIFIER", "Expected property name"), LAMBDA key :
  IF ~key.ok THEN key ELSE
  Let(consume(ts, key.pos, "COLON", "Expected :"), LAMBDA colon :
  IF ~colon.ok THEN colon ELSE
  Let(expression(ts, colon.pos), LAMBDA value :
  IF ~value.ok THEN value
  ELSE Let(Append(acc, [key |-> key.node.value, value |-> value.node]), LAMBDA acc1 :
       IF match(ts, value.pos, {"COMMA"}) THEN objectProperties(ts, value.pos + 1, acc1)
       ELSE POk(acc1, value.pos)))))

primary(ts, p) ==
  IF match(ts, p, {"TRUE"}) THEN POk([type |-> "Literal", value |-> Bool(TRUE)], p + 1)
  ELSE IF match(ts, p, {"FALSE"}) THEN POk([type |-> "Literal", value |-> Bool(FALSE)], p + 1)
  ELSE IF match(ts, p, {"NULL", "NIL"}) THEN POk([type |-> "Literal", value |-> Null], p + 1)
  ELSE IF match(ts, p, {"NUMBER"}) THEN POk([type |-> "Literal", value |-> previous(ts, p + 1).value], p + 1)
  ELSE IF match(ts, p, {"STRING"}) THEN POk([type |-> "Literal", value |-> Str(previous(ts, p + 1).value)], p + 1)
  ELSE IF match(ts, p, {"IDENTIFIER"}) THEN POk([type |-> "Identifier", name |-> previous(ts, p + 1).value], p + 1)
  ELSE IF match(ts, p, {"LPAREN"})
  THEN Let(expression(ts, p + 1), LAMBDA expr :
       IF ~expr.ok THEN expr ELSE
       Let(consume(ts, expr.pos, "RPAREN", "Expected ) after expression"), LAMBDA rp :
       IF ~rp.ok THEN rp ELSE POk(expr.node, rp.pos)))
  ELSE IF match(ts, p, {"LBRACKET"})
  THEN Let(IF ~check(ts, p + 1, "RBRACKET") THEN expressionList(ts, p + 1, <<>>)
           ELSE POk(<<>>, p + 1), LAMBDA elements :
       IF ~elements.ok THEN elements ELSE
       Let(consume(ts, elements.pos, "RBRACKET", "Expected ]"), LAMBDA rb :
       IF ~rb.ok THEN rb ELSE POk([type |-> "ArrayLiteral", elements |-> elements.node], rb.pos)))
  ELSE IF match(ts, p, {"LBRACE"})
  THEN Let(IF ~check(ts, p + 1, "RBRACE") THEN objectProperties(ts, p + 1, <<>>)
           ELSE POk(<<>>, p + 1), LAMBDA properties :
       IF ~properties.ok THEN properties ELSE
       Let(consume(ts, properties.pos, "RBRACE", "Expected }"), LAMBDA rb :
       IF ~rb.ok THEN rb ELSE POk([type |-> "ObjectLiteral", properties |-> properties.node], rb.pos)))
  ELSE IF isAtEnd(ts, p) THEN PErr("TypeError: Cannot read properties of undefined")
  ELSE PErr("Unexpected token: " \o peekToken(ts, p).type)

\* the loop of parse: statements until the end of the tokens or EOF
RECURSIVE parseLoop(_, _, _)
parseLoop(ts, p, statements) ==
  IF isAtEnd(ts, p) \/ match(ts, p, {"EOF"})
  THEN POk([type |-> "Program", statements |-> statements], p)
  ELSE Let(statement(ts, p), LAMBDA s :
       IF ~s.ok THEN s ELSE parseLoop(ts, s.pos, Append(statements, s.node)))

\* [ok, node, pos, msg]: the Program node, or the thrown error
parse(ts) == parseLoop(ts, 0, <<>>)

(***************************************************************************)
(* JavaScript operators on the modelled values                             *)
(***************************************************************************)
Sign(n) == IF n > 0 THEN 1 ELSE IF n < 0 THEN -1 ELSE 0

Neg(a) == [a EXCEPT !.num = -@]

RatAdd(a, b) ==
  IF IsNaN(a) \/ IsNaN(b) THEN NaN
  ELSE IF a.den = 0 /\ b.den = 0 THEN (IF a.num = b.num THEN a ELSE NaN)
  ELSE IF a.den = 0 THEN a
  ELSE IF b.den = 0 THEN b
  ELSE Rat(a.num * b.den + b.num * a.den, a.den * b.den)

RatSub(a, b) == RatAdd(a, Neg(b))

RatMul(a, b) == Rat(a.num * b.num, a.den * b.den)

Recip(b) == IF b.num < 0 THEN Rat(-b.den, -b.num) ELSE Rat(b.den, b.num)

RatDiv(a, b) == RatMul(a, Recip(b))

\* the integer part of a finite number, rounded toward zero
Trunc(a) == Sign(a.num) * (Abs(a.num) \div a.den)

\* the JavaScript remainder, which takes the sign of the dividend
RatMod(a, b) ==
  IF IsNaN(a) \/ IsNaN(b) \/ a.den = 0 \/ b.num = 0 THEN NaN
  ELSE IF b.den = 0 THEN a
  ELSE RatSub(a, RatMul(b, Num(Trunc(RatDiv(a, b)))))

RatLt(a, b) ==
  IF IsNaN(a) \/ IsNaN(b) THEN FALSE
  ELSE IF a.den = 0 /\ b.den = 0 THEN a.num < b.num
  ELSE a.num * b.den < b.num * a.den

RatEq(a, b) == ~IsNaN(a) /\ ~IsNaN(b) /\ a = b

\* the values whose conversions the model covers
Primitive(v) == v.t \in {"number", "boolean", "null", "undefined"}

ToNumber(v) ==
  CASE v.t = "number" -> v
    [] v.t = "boolean" -> IF v.b THEN Num(1) ELSE Num(0)
    [] v.t = "null" -> Num(0)
    [] v.t = "undefined" -> NaN

\* ToBoolean: what `if (value)` tests
Truthy(v) ==
  CASE v.t = "number" -> v.num # 0
    [] v.t = "boolean" -> v.b
    [] v.t = "string" -> v.s # ""
    [] v.t \in {"null", "undefined"} -> FALSE
    [] OTHER -> TRUE

\* left <op> right for the arithmetic operators; string concatenation only
\* of two strings, any other mix with a non-primitive is not modelled
Arith(op, l, r) ==
  IF op = "+" /\ l.t = "string" /\ r.t = "string" THEN Str(l.s \o r.s)
  ELSE IF ~Primitive(l) \/ ~Primitive(r) THEN Unmodelled
  ELSE CASE op = "+" -> RatAdd(ToNumber(l), ToNumber(r))
         [] op = "-" -> RatSub(ToNumber(l), ToNumber(r))
         [] op = "*" -> RatMul(ToNumber(l), ToNumber(r))
         [] op = "/" -> RatDiv(ToNumber(l), ToNumber(r))
         [] op = "%" -> RatMod(ToNumber(l), ToNumber(r))

\* left <op> right for < <= > >=
Relational(op, l, r) ==
  IF ~Primitive(l) \/ ~Primitive(r) THEN Unmodelled
  ELSE Let(ToNumber(l), LAMBDA a :
       Let(ToNumber(r), LAMBDA b :
       CASE op = "<" -> Bool(RatLt(a, b))
         [] op = ">" -> Bool(RatLt(b, a))
         [] op = "<=" -> Bool(RatLt(a, b) \/ RatEq(a, b))
         [] op = ">=" -> Bool(RatLt(b, a) \/ RatEq(a, b))))

\* left == right, the coercing equality
LooseEquals(l, r) ==
  IF l.t = "string" /\ r.t = "string" THEN Bool(l.s = r.s)
  ELSE IF ~Primitive(l) \/ ~Primitive(r) THEN Unmodelled
  ELSE IF l.t \in {"null", "undefined"} \/ r.t \in {"null", "undefined"}
       THEN Bool(l.t \in {"null", "undefined"} /\ r.t \in {"null", "undefined"})
  ELSE Bool(RatEq(ToNumber(l), ToNumber(r)))

(***************************************************************************)
(* Evaluator (src/core/evaluator.js)                                       *)
(* An evaluator state ev holds the scope objects (heap), the index of the  *)
(* current scope and the console output.  A scope object has its own       *)
(* bindings (vars) and a prototype link (proto): a scope made by {} has    *)
(* Object.prototype (index 0) as prototype, one made by Object.create(s)   *)
(* has s.  The global scope is scope 1.                                    *)
(* An evaluation yields [ev, thrown, val]: the value, or the exception     *)
(* thrown (BreakException, ContinueException, ReturnException, Error).     *)
(***************************************************************************)
globalScope == 1

\* the names every plain object inherits, and the functions they denote
ObjectPrototype ==
  [n \in {"constructor", "toString", "valueOf", "hasOwnProperty", "isPrototypeOf", "toLocaleString"} |->
     [t |-> "native", name |-> "Object.prototype." \o n]]

BuiltinNames ==
  {"print", "println", "input", "len", "str", "int", "float", "bool", "type", "range", "map",
   "filter", "reduce", "sort", "reverse", "join", "split", "push", "pop", "shift", "unshift",
   "slice", "indexOf", "includes", "keys", "values", "entries", "assign", "freeze", "seal",
   "Math", "Date", "JSON", "setTimeout", "setInterval", "clearTimeout", "clearInterval",
   "Promise", "fetch"}

\* runtime.builtins: the table made by Runtime.initializeBuiltins
builtins == [n \in BuiltinNames |-> [t |-> "native", name |-> n]]

NoVars == [n \in {} |-> Null]

\* new Evaluator(runtime); added holds the properties programs have added to
\* Object.prototype, the one object every scope made by {} inherits from
Evaluator ==
  [heap |-> <<[proto |-> 0, vars |-> NoVars]>>, currentScope |-> globalScope, console |-> <<>>,
   added |-> NoVars]

RVal(ev, v) == [ev |-> ev, thrown |-> FALSE, val |-> v]
RThrow(ev, e) == [ev |-> ev, thrown |-> TRUE, val |-> e]

Exception(name, message, value) == [t |-> "exception", name |-> name, message |-> message, value |-> value]
BreakException == Exception("BreakException", "Break", Null)
ContinueException == Exception("ContinueException", "Continue", Null)
ReturnException(value) == Exception("ReturnException", "Return", value)
Error(message) == Exception("Error", message, Null)
TypeError(message) == Exception("TypeError", message, Null)

\* the loop has not ended within the iterations the model follows: the
\* call is still running, nothing catches this
Hang == [t |-> "hang"]
IsHang(r) == r.thrown /\ r.val.t = "hang"
Is(r, name) == r.thrown /\ r.val.t = "exception" /\ r.val.name = name

\* name in scope: own bindings, then the prototype chain
RECURSIVE HasProperty(_, _, _)
HasProperty(ev, scope, name) ==
  IF scope = 0 THEN name \in DOMAIN ev.added \/ name \in DOMAIN ObjectPrototype
  ELSE name \in DOMAIN ev.heap[scope].vars \/ HasProperty(ev, ev.heap[scope].proto, name)

\* scope[name]: undefined when no object of the chain has the name
RECURSIVE GetProperty(_, _, _)
GetProperty(ev, scope, name) ==
  IF scope = 0
  THEN (IF name \in DOMAIN ev.added THEN ev.added[name]
        ELSE IF name \in DOMAIN ObjectPrototype THEN ObjectPrototype[name] ELSE Undefined)
  ELSE IF name \in DOMAIN ev.heap[scope].vars THEN ev.heap[scope].vars[name]
  ELSE GetProperty(ev, ev.heap[scope].proto, name)

\* the nearest scope of the chain that binds the name itself, 0 when none does
RECURSIVE Owner(_, _, _)
Owner(ev, scope, name) ==
  IF scope = 0 THEN 0
  ELSE IF name \in DOMAIN ev.heap[scope].vars THEN scope
  ELSE Owner(ev, ev.heap[scope].proto, name)

\* a write that goes to the scope that binds the name, and to the current
\* scope only when none does
SetOwner(ev, name, value) ==
  Let(IF Owner(ev, ev.currentScope, name) = 0 THEN ev.currentScope
      ELSE Owner(ev, ev.currentScope, name), LAMBDA k :
  [ev EXCEPT !.heap[k].vars = [n \in DOMAIN @ \cup {name} |-> IF n = name THEN value ELSE @[n]]])

\* this.currentScope[name] = value: always an own binding of the current scope
SetCurrent(ev, name, value) ==
  [ev EXCEPT !.heap[ev.currentScope].vars =
     [n \in DOMAIN @ \cup {name} |-> IF n = name THEN value ELSE @[n]]]

\* this.currentScope = Object.create(proto), or = {} when proto = 0
PushScope(ev, proto) ==
  [ev EXCEPT !.heap = Append(@, [proto |-> proto, vars |-> NoVars]),
             !.currentScope = Len(ev.heap) + 1]

\* the builtins and inherited functions whose effect the model covers:
\* print and println write their arguments to the console and yield null;
\* Object.prototype.toString called without receiver yields a string,
\* valueOf / hasOwnProperty / isPrototypeOf / toLocaleString throw a TypeError
callNative(name, args, ev) ==
  IF name \in {"print", "println"} THEN RVal([ev EXCEPT !.console = Append(@, args)], Null)
  ELSE IF name = "Object.prototype.toString" THEN RVal(ev, Str("[object Undefined]"))
  ELSE IF name \in {"Object.prototype.valueOf", "Object.prototype.hasOwnProperty",
                    "Object.prototype.isPrototypeOf", "Object.prototype.toLocaleString"}
       THEN RThrow(ev, TypeError("Cannot convert undefined or null to object"))
  ELSE RVal(ev, Unmodelled)

\* the Object.prototype object itself, the value of Object.prototype
\* (Object is what the inherited name constructor denotes)
TheObjectPrototype == [t |-> "object", name |-> "Object.prototype"]

\* object[property] of a value the evaluator holds
Member(object, property, ev) ==
  IF object \in {Null, Undefined}
  THEN RThrow(ev, TypeError("Cannot read properties of " \o object.t))
  ELSE IF object = TheObjectPrototype THEN RVal(ev, GetProperty(ev, 0, property))
  ELSE IF object = ObjectPrototype["constructor"] /\ property = "prototype"
  THEN RVal(ev, TheObjectPrototype)
  ELSE IF object.t = "ref" THEN RVal(ev, GetProperty(ev, object.at, property))
  ELSE RVal(ev, Unmodelled)

\* object[property] = value
SetMember(object, property, value, ev) ==
  IF object \in {Null, Undefined}
  THEN RThrow(ev, TypeError("Cannot set properties of " \o object.t))
  ELSE IF object = TheObjectPrototype
  THEN RVal([ev EXCEPT !.added = [n \in DOMAIN @ \cup {property} |->
                                    IF n = property THEN value ELSE @[n]]], value)
  ELSE IF object.t = "ref"
  THEN RVal([ev EXCEPT !.heap[object.at].vars =
               [n \in DOMAIN @ \cup {property} |-> IF n = property THEN value ELSE @[n]]], value)
  ELSE RVal(ev, value)

RECURSIVE objectLiteralLoop(_, _, _, _)
RECURSIVE evaluateNode(_, _), evaluateBlock(_, _), evaluateBlockLoop(_, _, _, _),
          evaluateTryStatement(_, _), evaluateIfStatement(_, _), evaluateElifBranches(_, _, _),
          evaluateWhileStatement(_, _), whileLoop(_, _, _, _),
          evaluateForStatement(_, _), forLoop(_, _, _, _, _, _, _),
          evaluateAssignment(_, _), evaluateBinaryExpression(_, _),
          evaluateUnaryExpression(_, _), evaluateCallExpression(_, _),
          evaluateArguments(_, _, _, _), evaluateVariableDeclaration(_, _),
          evaluateReturnStatement(_, _)

\* for (const statement of statements) result = this.evaluateNode(statement)
evaluateBlockLoop(statements, k, ev, result) ==
  IF k > Len(statements) THEN RVal(ev, result)
  ELSE Let(evaluateNode(statements[k], ev), LAMBDA r :
       IF r.thrown THEN r ELSE evaluateBlockLoop(statements, k + 1, r.ev, r.val))

evaluateBlock(statements, ev) == evaluateBlockLoop(statements, 1, ev, Null)

evaluateProgram(node, ev) == evaluateBlockLoop(node.statements, 1, ev, Null)

evaluateVariableDeclaration(node, ev) ==
  Let(IF node.initializer.type # "null" THEN evaluateNode(node.initializer, ev)
      ELSE RVal(ev, Null), LAMBDA value :
  IF value.thrown THEN value
  ELSE RVal(SetCurrent(value.ev, node.name, value.val), value.val))

evaluateFunctionDeclaration(node, ev) ==
  Let([t |-> "function", parameters |-> node.parameters, body |-> node.body,
       scope |-> ev.currentScope], LAMBDA func :
  RVal(SetCurrent(ev, node.name, func), func))

\* the finally clause of evaluateTryStatement, run after the completion r of
\* the try block or of the catch clause
Finally(node, r) ==
  IF ~node.hasFinally \/ IsHang(r) THEN r
  ELSE Let(evaluateBlock(node.finallyBlock, r.ev), LAMBDA f :
       IF f.thrown THEN f ELSE [r EXCEPT !.ev = f.ev])

evaluateTryStatement(node, ev) ==
  Let(evaluateBlock(node.tryBlock, ev), LAMBDA r :
  IF ~r.thrown \/ IsHang(r) THEN Finally(node, r)
  ELSE IF node.catchClause.present
  THEN Let(r.ev.currentScope, LAMBDA previousScope :
       Let(PushScope(r.ev, previousScope), LAMBDA pushed :
       Let(IF node.catchClause.parameter # ""
           THEN SetCurrent(pushed, node.catchClause.parameter, r.val) ELSE pushed, LAMBDA bound :
       Let(evaluateBlock(node.catchClause.body, bound), LAMBDA result :
       IF result.thrown THEN Finally(node, result)
       ELSE Finally(node, RVal([result.ev EXCEPT !.currentScope = previousScope], result.val))))))
  ELSE Finally(node, r))

evaluateElifBranches(branches, k, ev) ==
  IF k > Len(branches) THEN [taken |-> FALSE, r |-> RVal(ev, Null)]
  ELSE Let(evaluateNode(branches[k].condition, ev), LAMBDA c :
       IF c.thrown THEN [taken |-> TRUE, r |-> c]
       ELSE IF Truthy(c.val) THEN [taken |-> TRUE, r |-> evaluateBlock(branches[k].body, c.ev)]
       ELSE evaluateElifBranches(branches, k + 1, c.ev))

evaluateIfStatement(node, ev) ==
  Let(evaluateNode(node.condition, ev), LAMBDA c :
  IF c.thrown THEN c
  ELSE IF Truthy(c.val) THEN evaluateBlock(node.thenBranch, c.ev)
  ELSE Let(evaluateElifBranches(node.elifBranches, 1, c.ev), LAMBDA e :
       IF e.taken THEN e.r
       ELSE IF node.hasElse THEN evaluateBlock(node.elseBranch, e.r.ev)
       ELSE RVal(e.r.ev, Null)))

\* the loop of evaluateWhileStatement; iterations is the counter before
\* the test `iterations++ > maxIterations`
whileLoop(node, ev, iterations, result) ==
  Let(evaluateNode(node.condition, ev), LAMBDA c :
  IF c.thrown THEN c
  ELSE IF ~Truthy(c.val) THEN RVal(c.ev, result)
  ELSE IF iterations > maxIterations THEN RThrow(c.ev, Error("Infinite loop detected"))
  ELSE Let(evaluateBlock(node.body, c.ev), LAMBDA b :
       IF Is(b, "BreakException") THEN RVal(b.ev, result)
       ELSE IF Is(b, "ContinueException") THEN whileLoop(node, b.ev, iterations + 1, result)
       ELSE IF b.thrown THEN b
       ELSE whileLoop(node, b.ev, iterations + 1, b.val)))

evaluateWhileStatement(node, ev) == whileLoop(node, ev, 0, Null)

\* a for-loop whose upper bound is exclusive
forTestExclusive(i, end) == Relational("<", i, end)

\* the test of the for-loop of evaluateForStatement: i <= end
forTest(i, end) == Relational("<=", i, end)

\* a for-loop that makes a scope of its own for every iteration
RECURSIVE forLoopFresh(_, _, _, _, _, _, _)
forLoopFresh(node, ev, i, end, step, result, previousScope) ==
  Let(forTest(i.val, end), LAMBDA test :
  Let(RVal([ev EXCEPT !.currentScope = previousScope], result), LAMBDA leave :
  IF test = Unmodelled \/ ~Primitive(step) THEN RVal(leave.ev, Unmodelled)
  ELSE IF ~test.b THEN leave
  ELSE IF i.n >= MaxForIterations THEN RThrow(ev, Hang)
  ELSE Let(evaluateBlock(node.body, SetCurrent(PushScope(ev, previousScope), node.iterator, i.val)), LAMBDA b :
       Let([val |-> Arith("+", i.val, step), n |-> i.n + 1], LAMBDA next :
       IF Is(b, "BreakException") THEN RVal([b.ev EXCEPT !.currentScope = previousScope], result)
       ELSE IF Is(b, "ContinueException") THEN forLoopFresh(node, b.ev, next, end, step, result, previousScope)
       ELSE IF b.thrown THEN b
       ELSE forLoopFresh(node, b.ev, next, end, step, b.val, previousScope)))))

\* the loop of evaluateForStatement: for (let i = start; i <= end; i += step);
\* n counts the iterations begun, previousScope is restored on leaving the
\* loop by its test or by break, not when the body throws
forLoop(node, ev, i, end, step, result, previousScope) ==
  Let(forTest(i.val, end), LAMBDA test :
  Let(RVal([ev EXCEPT !.currentScope = previousScope], result), LAMBDA leave :
  IF test = Unmodelled \/ ~Primitive(step) THEN RVal(leave.ev, Unmodelled)
  ELSE IF ~test.b THEN leave
  ELSE IF i.n >= MaxForIterations THEN RThrow(ev, Hang)
  ELSE Let(evaluateBlock(node.body, SetCurrent(ev, node.iterator, i.val)), LAMBDA b :
       Let([val |-> Arith("+", i.val, step), n |-> i.n + 1], LAMBDA next :
       IF Is(b, "BreakException") THEN RVal([b.ev EXCEPT !.currentScope = previousScope], result)
       ELSE IF Is(b, "ContinueException") THEN forLoop(node, b.ev, next, end, step, result, previousScope)
       ELSE IF b.thrown THEN b
       ELSE forLoop(node, b.ev, next, end, step, b.val, previousScope)))))

evaluateForStatement(node, ev) ==
  Let(evaluateNode(node.start, ev), LAMBDA start :
  IF start.thrown THEN start ELSE
  Let(evaluateNode(node.end, start.ev), LAMBDA end :
  IF end.thrown THEN end ELSE
  Let(evaluateNode(node.step, end.ev), LAMBDA step :
  IF step.thrown THEN step ELSE
  Let(step.ev.currentScope, LAMBDA previousScope :
  forLoop(node, PushScope(step.ev, previousScope), [val |-> start.val, n |-> 0],
          end.val, step.val, Null, previousScope)))))

evaluateReturnStatement(node, ev) ==
  Let(IF node.value.type # "null" THEN evaluateNode(node.value, ev) ELSE RVal(ev, Null), LAMBDA value :
  IF value.thrown THEN value ELSE RThrow(value.ev, ReturnException(value.val)))

\* index and member targets need heap objects, which the model leaves out
evaluateAssignment(node, ev) ==
  Let(evaluateNode(node.value, ev), LAMBDA value :
  IF value.thrown THEN value
  ELSE IF node.target.type = "Identifier"
  THEN Let(node.target.name, LAMBDA name :
       Let(GetProperty(value.ev, value.ev.currentScope, name), LAMBDA read :
       Let(IF Truthy(read) THEN read ELSE Num(0), LAMBDA previousValue :
       Let(CASE node.operator = "=" -> value.val
             [] node.operator = "+=" -> Arith("+", previousValue, value.val)
             [] node.operator = "-=" -> Arith("-", previousValue, value.val)
             [] node.operator = "*=" -> Arith("*", previousValue, value.val)
             [] node.operator = "/=" -> Arith("/", previousValue, value.val), LAMBDA stored :
       RVal(SetCurrent(value.ev, name, stored), stored)))))
  ELSE IF node.target.type = "IndexExpression"
  THEN Let(evaluateNode(node.target.object, value.ev), LAMBDA object :
       IF object.thrown THEN object ELSE
       Let(evaluateNode(node.target.index, object.ev), LAMBDA index :
       IF index.thrown THEN index
       ELSE IF index.val.t # "string" THEN RVal(index.ev, Unmodelled)
       ELSE SetMember(object.val, index.val.s, value.val, index.ev)))
  ELSE IF node.target.type = "MemberExpression"
  THEN Let(evaluateNode(node.target.object, value.ev), LAMBDA object :
       IF object.thrown THEN object
       ELSE SetMember(object.val, node.target.property, value.val, object.ev))
  ELSE RThrow(value.ev, Error("Invalid assignment target")))

evaluateBinaryExpression(node, ev) ==
  Let(evaluateNode(node.left, ev), LAMBDA left :
  IF left.thrown THEN left ELSE
  Let(evaluateNode(node.right, left.ev), LAMBDA right :
  IF right.thrown THEN right ELSE
  Let(node.operator, LAMBDA op :
  Let(left.val, LAMBDA l :
  Let(right.val, LAMBDA r :
  IF op \in {"+", "-", "*", "/", "%"} THEN RVal(right.ev, Arith(op, l, r))
  ELSE IF op = "==" THEN RVal(right.ev, LooseEquals(l, r))
  ELSE IF op = "!="
  THEN RVal(right.ev, IF LooseEquals(l, r) = Unmodelled THEN Unmodelled ELSE Bool(~LooseEquals(l, r).b))
  ELSE IF op \in {"<", "<=", ">", ">="} THEN RVal(right.ev, Relational(op, l, r))
  ELSE IF op \in {"and", "&&"} THEN RVal(right.ev, IF Truthy(l) THEN r ELSE l)
  ELSE IF op \in {"or", "||"} THEN RVal(right.ev, IF Truthy(l) THEN l ELSE r)
  ELSE RThrow(right.ev, Error("Unknown binary operator: " \o op)))))))

evaluateUnaryExpression(node, ev) ==
  Let(evaluateNode(node.operand, ev), LAMBDA operand :
  IF operand.thrown THEN operand
  ELSE IF node.operator \in {"not", "!"} THEN RVal(operand.ev, Bool(~Truthy(operand.val)))
  ELSE IF ~Primitive(operand.val) THEN RVal(operand.ev, Unmodelled)
  ELSE IF node.operator = "-" THEN RVal(operand.ev, Neg(ToNumber(operand.val)))
  ELSE IF node.operator = "+" THEN RVal(operand.ev, ToNumber(operand.val))
  ELSE RThrow(operand.ev, Error("Unknown unary operator: " \o node.operator)))

\* node.arguments.map(arg => this.evaluateNode(arg)); val is the list of values
evaluateArguments(arguments, k, ev, args) ==
  IF k > Len(arguments) THEN RVal(ev, args)
  ELSE Let(evaluateNode(arguments[k], ev), LAMBDA a :
       IF a.thrown THEN a ELSE evaluateArguments(arguments, k + 1, a.ev, Append(args, a.val)))

\* for (i < parameters.length) this.currentScope[parameters[i]] = args[i]
RECURSIVE bindParameters(_, _, _, _)
bindParameters(ev, parameters, args, k) ==
  IF k > Len(parameters) THEN ev
  ELSE bindParameters(SetCurrent(ev, parameters[k], IF k <= Len(args) THEN args[k] ELSE Undefined),
                      parameters, args, k + 1)

\* a call that ends with null on a break or continue raised in the body
evaluateCallExpressionEndingSignals(node, ev) ==
  Let(evaluateNode(node.callee, ev), LAMBDA callee :
  IF callee.thrown THEN callee ELSE
  Let(evaluateArguments(node.arguments, 1, callee.ev, <<>>), LAMBDA args :
  IF args.thrown THEN args
  ELSE IF callee.val.t = "native" THEN callNative(callee.val.name, args.val, args.ev)
  ELSE IF callee.val.t \in {"null", "undefined"}
       THEN RThrow(args.ev, TypeError("Cannot read properties of " \o callee.val.t))
  ELSE IF callee.val.t = "function"
  THEN Let(args.ev.currentScope, LAMBDA previousScope :
       Let(bindParameters(PushScope(args.ev, callee.val.scope),
                          callee.val.parameters, args.val, 1), LAMBDA entered :
       Let(evaluateBlock(callee.val.body, entered), LAMBDA b :
       Let([b.ev EXCEPT !.currentScope = previousScope], LAMBDA restored :
       IF IsHang(b) THEN b
       ELSE IF ~b.thrown \/ Is(b, "BreakException") \/ Is(b, "ContinueException")
       THEN RVal(restored, Null)
       ELSE IF Is(b, "ReturnException") THEN RVal(restored, b.val.value)
       ELSE RThrow(restored, b.val)))))
  ELSE RThrow(args.ev, Error("Not a function"))))

evaluateCallExpression(node, ev) ==
  Let(evaluateNode(node.callee, ev), LAMBDA callee :
  IF callee.thrown THEN callee ELSE
  Let(evaluateArguments(node.arguments, 1, callee.ev, <<>>), LAMBDA args :
  IF args.thrown THEN args
  ELSE IF callee.val.t = "native" THEN callNative(callee.val.name, args.val, args.ev)
  ELSE IF callee.val.t \in {"null", "undefined"}
       THEN RThrow(args.ev, TypeError("Cannot read properties of " \o callee.val.t))
  ELSE IF callee.val.t = "function"
  THEN Let(args.ev.currentScope, LAMBDA previousScope :
       Let(bindParameters(PushScope(args.ev, callee.val.scope),
                          callee.val.parameters, args.val, 1), LAMBDA entered :
       Let(evaluateBlock(callee.val.body, entered), LAMBDA b :
       Let([b.ev EXCEPT !.currentScope = previousScope], LAMBDA restored :
       IF IsHang(b) THEN b
       ELSE IF ~b.thrown THEN RVal(restored, Null)
       ELSE IF Is(b, "ReturnException") THEN RVal(restored, b.val.value)
       ELSE RThrow(restored, b.val)))))
  ELSE RThrow(args.ev, Error("Not a function"))))

\* object[index], for the indices that are strings
evaluateIndexExpression(node, ev) ==
  Let(evaluateNode(node.object, ev), LAMBDA object :
  IF object.thrown THEN object ELSE
  Let(evaluateNode(node.index, object.ev), LAMBDA index :
  IF index.thrown THEN index
  ELSE IF index.val.t # "string" THEN RVal(index.ev, Unmodelled)
  ELSE Member(object.val, index.val.s, index.ev)))

\* obj = {}; obj[prop.key] = value of prop.value, in order; the object is a
\* heap entry that inherits from Object.prototype, the value a reference
objectLiteralLoop(properties, k, ev, obj) ==
  IF k > Len(properties)
  THEN RVal([ev EXCEPT !.heap = Append(@, [proto |-> 0, vars |-> obj])],
            [t |-> "ref", at |-> Len(ev.heap) + 1])
  ELSE Let(evaluateNode(properties[k].value, ev), LAMBDA value :
       IF value.thrown THEN value
       ELSE objectLiteralLoop(properties, k + 1, value.ev,
              [n \in DOMAIN obj \cup {properties[k].key} |->
                 IF n = properties[k].key THEN value.val ELSE obj[n]]))

evaluateObjectLiteral(node, ev) == objectLiteralLoop(node.properties, 1, ev, NoVars)

evaluateMemberExpression(node, ev) ==
  Let(evaluateNode(node.object, ev), LAMBDA object :
  IF object.thrown THEN object ELSE Member(object.val, node.property, object.ev))

evaluateIdentifier(node, ev) ==
  Let(node.name, LAMBDA name :
  IF HasProperty(ev, ev.currentScope, name)
  THEN RVal(ev, GetProperty(ev, ev.currentScope, name))
  ELSE IF HasProperty(ev, globalScope, name)
  THEN RVal(ev, GetProperty(ev, globalScope, name))
  ELSE IF name \in DOMAIN builtins THEN RVal(ev, builtins[name])
  ELSE RThrow(ev, Error("Undefined variable: " \o name)))

\* array and object values need heap objects, which the model leaves out;
\* of the objects of the realm it has Object.prototype
evaluateNode(node, ev) ==
  CASE node.type = "null" -> RVal(ev, Null)
    [] node.type = "Program" -> evaluateProgram(node, ev)
    [] node.type = "VariableDeclaration" -> evaluateVariableDeclaration(node, ev)
    [] node.type = "FunctionDeclaration" -> evaluateFunctionDeclaration(node, ev)
    [] node.type = "TryStatement" -> evaluateTryStatement(node, ev)
    [] node.type = "IfStatement" -> evaluateIfStatement(node, ev)
    [] node.type = "WhileStatement" -> evaluateWhileStatement(node, ev)
    [] node.type = "ForStatement" -> evaluateForStatement(node, ev)
    [] node.type = "ReturnStatement" -> evaluateReturnStatement(node, ev)
    [] node.type = "Break" -> RThrow(ev, BreakException)
    [] node.type = "Continue" -> RThrow(ev, ContinueException)
    [] node.type = "ExpressionStatement" -> evaluateNode(node.expression, ev)
    [] node.type = "Assignment" -> evaluateAssignment(node, ev)
    [] node.type = "BinaryExpression" -> evaluateBinaryExpression(node, ev)
    [] node.type = "UnaryExpression" -> evaluateUnaryExpression(node, ev)
    [] node.type = "CallExpression" -> evaluateCallExpression(node, ev)
    [] node.type = "Identifier" -> evaluateIdentifier(node, ev)
    [] node.type = "Literal" -> RVal(ev, node.value)
    [] node.type = "MemberExpression" -> evaluateMemberExpression(node, ev)
    [] node.type = "IndexExpression" -> evaluateIndexExpression(node, ev)
    [] node.type = "ObjectLiteral" -> evaluateObjectLiteral(node, ev)
    [] node.type = "ArrayLiteral" -> RVal(ev, Unmodelled)

evaluate(ast, ev) == evaluateNode(ast, ev)

(***************************************************************************)
(* LumosEngine (index.cjs)                                                 *)
(***************************************************************************)
\* an engine that evaluates each statement as soon as it is parsed
RECURSIVE executeEagerLoop(_, _, _, _)
executeEagerLoop(ts, p, ev, result) ==
  IF isAtEnd(ts, p) \/ match(ts, p, {"EOF"})
  THEN [evaluator |-> ev, kind |-> "value", val |-> result, message |-> ""]
  ELSE Let(statement(ts, p), LAMBDA s :
       IF ~s.ok
       THEN [evaluator |-> ev, kind |-> "error", val |-> Null,
             message |-> "Lumos Execution Error: " \o s.msg]
       ELSE Let(evaluateNode(s.node, ev), LAMBDA r :
            IF IsHang(r) THEN [evaluator |-> r.ev, kind |-> "hang", val |-> Null, message |-> ""]
            ELSE IF r.thrown
            THEN [evaluator |-> r.ev, kind |-> "error", val |-> Null,
                  message |-> "Lumos Execution Error: " \o r.val.message]
            ELSE executeEagerLoop(ts, s.pos, r.ev, r.val)))

executeEager(ev, code) ==
  Let(tokenize(code), LAMBDA lexed :
  IF ~lexed.ok
  THEN [evaluator |-> ev, kind |-> "error", val |-> Null,
        message |-> "Lumos Execution Error: " \o lexed.msg]
  ELSE executeEagerLoop(lexed.tokens, 0, ev, Null))

\* execute(code): [evaluator, kind, val, message]; kind is "value" when the
\* call returns val, "error" when it throws the Error with the message,
\* "hang" when the call does not return
execute(ev, code) ==
  Let(tokenize(code), LAMBDA lexed :
  IF ~lexed.ok
  THEN [evaluator |-> ev, kind |-> "error", val |-> Null,
        message |-> "Lumos Execution Error: " \o lexed.msg]
  ELSE
  Let(parse(lexed.tokens), LAMBDA ast :
  IF ~ast.ok
  THEN [evaluator |-> ev, kind |-> "error", val |-> Null,
        message |-> "Lumos Execution Error: " \o ast.msg]
  ELSE
  Let(evaluate(ast.node, ev), LAMBDA r :
  IF IsHang(r) THEN [evaluator |-> r.ev, kind |-> "hang", val |-> Null, message |-> ""]
  ELSE IF r.thrown
  THEN [evaluator |-> r.ev, kind |-> "error", val |-> Null,
        message |-> "Lumos Execution Error: " \o r.val.message]
  ELSE [evaluator |-> r.ev, kind |-> "value", val |-> r.val, message |-> ""])))

(***************************************************************************)
(* The compiler's IR and the passes of its Optimizer                       *)
(***************************************************************************)
DigitChars == <<"0", "1", "2", "3", "4", "5", "6", "7", "8", "9">>

RECURSIVE NatString(_)
NatString(n) == IF n < 10 THEN DigitChars[n + 1] ELSE NatString(n \div 10) \o DigitChars[(n % 10) + 1]

\* the first k decimals of r / den, up to the last one that is not zero
RECURSIVE FractionString(_, _, _)
FractionString(r, den, k) ==
  IF r = 0 \/ k = 0 THEN ""
  ELSE DigitChars[((r * 10) \div den) + 1] \o FractionString((r * 10) % den, den, k - 1)

\* String(v), the conversion a template literal applies to a value
String(v) ==
  CASE v.t = "string" -> v.s
    [] v.t = "null" -> "null"
    [] v.t = "undefined" -> "undefined"
    [] v.t = "boolean" -> (IF v.b THEN "true" ELSE "false")
    [] v.t = "number" ->
         IF v.den = 0 THEN (IF v.num = 0 THEN "NaN" ELSE IF v.num > 0 THEN "Infinity" ELSE "-Infinity")
         ELSE (IF v.num < 0 THEN "-" ELSE "")
                \o NatString(Abs(v.num) \div v.den)
                \o (IF v.den = 1 THEN "" ELSE "." \o FractionString(Abs(v.num) % v.den, v.den, 16))

\* IRGenerator.emit pushes { op, arg1, arg2, result }
Instruction(op, arg1, arg2, result) == [op |-> op, arg1 |-> arg1, arg2 |-> arg2, result |-> result]

ArithmeticOps == {"+", "-", "*", "/", "%"}

\* a truthy value of type string
IsName(v) == v.t = "string" /\ v.s # ""

\* a constant folding that leaves the remainder instructions alone
constantFoldingNoRemainder(instructions) ==
  [k \in 1..Len(instructions) |->
     LET inst == instructions[k]
     IN IF inst.op \in {"+", "-", "*", "/"} /\ IsNumber(inst.arg1) /\ IsNumber(inst.arg2)
        THEN Instruction("assign", Arith(inst.op, inst.arg1, inst.arg2), Null, inst.result)
        ELSE inst]

constantFolding(instructions) ==
  [k \in 1..Len(instructions) |->
     LET inst == instructions[k]
     IN IF inst.op \in ArithmeticOps /\ IsNumber(inst.arg1) /\ IsNumber(inst.arg2)
        THEN Instruction("assign", Arith(inst.op, inst.arg1, inst.arg2), Null, inst.result)
        ELSE inst]

\* a dead-code elimination that keeps only the labels some goto jumps to
deadCodeEliminationGotoOnly(instructions) ==
  LET labels == {instructions[k].result : k \in {j \in 1..Len(instructions) : instructions[j].op = "goto"}}
      keep(inst) == IF inst.op = "label" THEN inst.arg1 \in labels ELSE TRUE
  IN SelectSeq(instructions, keep)

deadCodeElimination(instructions) ==
  LET all == {instructions[k] : k \in 1..Len(instructions)}
      jumps == {inst \in all : inst.op \in {"label", "goto", "if_false"}}
      labels == {inst.result : inst \in {j \in jumps : Truthy(j.result)}}
                  \cup {inst.arg1 : inst \in {j \in jumps : IsName(j.arg1)}}
      used == {inst.result : inst \in {j \in all : Truthy(j.result)}}
                \cup {inst.arg1 : inst \in {j \in all : IsName(j.arg1)}}
                \cup {inst.arg2 : inst \in {j \in all : IsName(j.arg2)}}
      keep(inst) ==
        IF inst.op = "label" THEN inst.arg1 \in labels
        ELSE IF ~Truthy(inst.result) THEN TRUE
        ELSE inst.result \in used
  IN SelectSeq(instructions, keep)

\* the key `${inst.op}:${inst.arg1}:${inst.arg2}`
ExpressionKey(inst) == inst.op \o ":" \o String(inst.arg1) \o ":" \o String(inst.arg2)

\* expressions is the Map from keys to the result of their first instruction
RECURSIVE cseLoop(_, _, _, _)
cseLoop(instructions, k, expressions, out) ==
  IF k > Len(instructions) THEN out
  ELSE LET inst == instructions[k]
           key == ExpressionKey(inst)
       IN IF inst.op \notin ArithmeticOps THEN cseLoop(instructions, k + 1, expressions, Append(out, inst))
          ELSE IF key \in DOMAIN expressions
          THEN cseLoop(instructions, k + 1, expressions,
                       Append(out, Instruction("assign", expressions[key], Null, inst.result)))
          ELSE cseLoop(instructions, k + 1, (key :> inst.result) @@ expressions, Append(out, inst))

\* a pass that forgets the expressions reading a name once an instruction
\* writes that name
RECURSIVE cseInvalidatingLoop(_, _, _, _)
cseInvalidatingLoop(instructions, k, known, out) ==
  IF k > Len(instructions) THEN out
  ELSE LET inst == instructions[k]
           valid == {e \in known : inst.result \notin {e.arg1, e.arg2}}
           same == {e \in known : e.op = inst.op /\ e.arg1 = inst.arg1 /\ e.arg2 = inst.arg2}
       IN IF inst.op \notin ArithmeticOps
          THEN cseInvalidatingLoop(instructions, k + 1, valid, Append(out, inst))
          ELSE IF same # {}
          THEN cseInvalidatingLoop(instructions, k + 1, valid,
                 Append(out, Instruction("assign", (CHOOSE e \in same : TRUE).result, Null, inst.result)))
          ELSE cseInvalidatingLoop(instructions, k + 1, valid \cup {inst}, Append(out, inst))

commonSubexpressionEliminationInvalidating(instructions) ==
  cseInvalidatingLoop(instructions, 1, {}, <<>>)

commonSubexpressionElimination(instructions) == cseLoop(instructions, 1, [key \in {} |-> Null], <<>>)

\* an optimize that applies its three passes a second time
optimizeTwice(instructions) ==
  commonSubexpressionElimination(deadCodeElimination(constantFolding(
    commonSubexpressionElimination(deadCodeElimination(constantFolding(instructions))))))

optimize(instructions) ==
  commonSubexpressionElimination(deadCodeElimination(constantFolding(instructions)))

(***************************************************************************)
(* Source texts executed on the engine                                     *)
(***************************************************************************)
\* let x = 10
SrcLetX ==
  <<"l","e","t"," ","x"," ","="," ","1","0">>
\* let y = 20
SrcLetY ==
  <<"l","e","t"," ","y"," ","="," ","2","0">>
\* let z = x + y
SrcLetZ ==
  <<"l","e","t"," ","z"," ","="," ","x"," ","+"," ","y">>
\* def add(a, b) { return a + b }
SrcDefAdd ==
  <<"d","e","f"," ","a","d","d","(","a",","," ","b",")"," ","{"," ","r","e","t","u","r","n"," ","a"," ","+"," ","b"," ","}">>
\* add(3, 4)
SrcCallAdd ==
  <<"a","d","d","(","3",","," ","4",")">>
\* def g() { print(1) return 5; print(2) return 6 } g()
SrcReturnFirst ==
  <<"d","e","f"," ","g","(",")"," ","{"," ","p","r","i","n","t","(","1",")"," ","r","e","t","u","r","n"," ","5",";"," ","p","r","i","n","t","(","2",")"," ","r","e","t","u","r","n"," ","6"," ","}"," ","g","(",")">>
\* def k(a) { let q = a } k(1)
SrcNoReturn ==
  <<"d","e","f"," ","k","(","a",")"," ","{"," ","l","e","t"," ","q"," ","="," ","a"," ","}"," ","k","(","1",")">>
\* def h() { try { return 1 } catch (e) { print(3) } return 2 } h()
SrcReturnInTry ==
  <<"d","e","f"," ","h","(",")"," ","{"," ","t","r","y"," ","{"," ","r","e","t","u","r","n"," ","1"," ","}"," ","c","a","t","c","h"," ","(","e",")"," ","{"," ","p","r","i","n","t","(","3",")"," ","}"," ","r","e","t","u","r","n"," ","2"," ","}"," ","h","(",")">>
\* let w = 1 print(w) let v =
SrcParseError ==
  <<"l","e","t"," ","w"," ","="," ","1"," ","p","r","i","n","t","(","w",")"," ","l","e","t"," ","v"," ","=">>
\* let w = 2 print(w) @
SrcLexError ==
  <<"l","e","t"," ","w"," ","="," ","2"," ","p","r","i","n","t","(","w",")"," ","@">>
\* x = 0 if (true) { x = 1
SrcUnclosedBlock ==
  <<"x"," ","="," ","0"," ","i","f"," ","(","t","r","u","e",")"," ","{"," ","x"," ","="," ","1">>
\* def f() { return x } for i = 1 to 1 { u }
SrcLoopError ==
  <<"d","e","f"," ","f","(",")"," ","{"," ","r","e","t","u","r","n"," ","x"," ","}"," ","f","o","r"," ","i"," ","="," ","1"," ","t","o"," ","1"," ","{"," ","u"," ","}">>
\* f()
SrcCallF ==
  <<"f","(",")">>
\* undefinedName
SrcRefUndefined ==
  <<"u","n","d","e","f","i","n","e","d","N","a","m","e">>
\* undefinedName()
SrcCallUndefined ==
  <<"u","n","d","e","f","i","n","e","d","N","a","m","e","(",")">>
\* toString
SrcRefToString ==
  <<"t","o","S","t","r","i","n","g">>
\* toString()
SrcCallToString ==
  <<"t","o","S","t","r","i","n","g","(",")">>

\* for i = 1 to 2 { try { break } catch (e) { print(4) } }
SrcBreakInTry ==
  <<"f","o","r"," ","i"," ","="," ","1"," ","t","o"," ","2"," ","{"," ","t","r","y"," ","{"," ","b","r","e","a","k"," ","}"," ","c","a","t","c","h"," ","(","e",")"," ","{"," ","p","r","i","n","t","(","4",")"," ","}"," ","}">>
\* for i = 1 to 2 { try { continue } catch (e) { print(5) } print(6) }
SrcContinueInTry ==
  <<"f","o","r"," ","i"," ","="," ","1"," ","t","o"," ","2"," ","{"," ","t","r","y"," ","{"," ","c","o","n","t","i","n","u","e"," ","}"," ","c","a","t","c","h"," ","(","e",")"," ","{"," ","p","r","i","n","t","(","5",")"," ","}"," ","p","r","i","n","t","(","6",")"," ","}">>
\* let r = 7 return r
SrcTopLevelReturn ==
  <<"l","e","t"," ","r"," ","="," ","7"," ","r","e","t","u","r","n"," ","r">>
\* let l = 0 let m = false && (l = 1)
SrcAndAssigns ==
  <<"l","e","t"," ","l"," ","="," ","0"," ","l","e","t"," ","m"," ","="," ","f","a","l","s","e"," ","&","&"," ","(","l"," ","="," ","1",")">>
\* let o = 0 let p = 5 or (o = 1)
SrcOrAssigns ==
  <<"l","e","t"," ","o"," ","="," ","0"," ","l","e","t"," ","p"," ","="," ","5"," ","o","r"," ","(","o"," ","="," ","1",")">>
Sources ==
  {SrcLetX, SrcLetY, SrcLetZ, SrcDefAdd, SrcCallAdd, SrcReturnFirst, SrcNoReturn, SrcReturnInTry,
   SrcParseError, SrcLexError, SrcUnclosedBlock, SrcLoopError, SrcCallF,
   SrcRefUndefined, SrcCallUndefined, SrcRefToString, SrcCallToString,
   SrcBreakInTry, SrcContinueInTry, SrcTopLevelReturn, SrcAndAssigns, SrcOrAssigns}

(***************************************************************************)
(* The engine as a state machine: one LumosEngine, and execute calls on it *)
(***************************************************************************)
VARIABLES
  evaluator,   \* engine.evaluator: its scopes, current scope and console
  outcome,     \* how the last execute call (or the loop followed) ended
  lastCode,    \* the source text of the last execute call, <<>> before
  calls,       \* the number of execute calls made
  loop,        \* the loop statement being evaluated, step by step
  opt,         \* the instruction sequence held by the compiler's Optimizer
  compiled,    \* what the last compile call (either entry point) returned or raised
  engineB,     \* a second LumosEngine: its evaluator and the sources executed on it
  runner,      \* the FileRunner of the engine: the file it ran and how run ended
  repl,        \* the REPL of the engine: mode, buffer, history, prompt and what it printed
  lexer,       \* a Lexer inside tokenize: the object, and where the call stands
  gen,         \* the IRGenerator lowering a program, statement by statement
  parsing      \* the Parser's call on a token sequence: the tokens and what parse returned

vars == <<evaluator, outcome, lastCode, calls, loop, opt, compiled, engineB, runner, repl, lexer, gen, parsing>>

NoOutcome == [kind |-> "none", val |-> Null, message |-> ""]
NoLoop == [pc |-> "idle"]
NoOpt == [pass |-> "none", input |-> <<>>, ir |-> <<>>, passes |-> 0]
NoEngineB == [evaluator |-> Evaluator, executed |-> <<>>]
NoRun == [pc |-> "idle", file |-> <<>>, executed |-> <<>>, output |-> <<>>, val |-> Null]
\* new REPL(engine), start() called: the prompt is lumos> ; lines counts the
\* line events, line is the last one
NoRepl ==
  [inMultilineMode |-> FALSE, multilineBuffer |-> <<>>, history |-> <<>>, prompt |-> "lumos> ",
   output |-> <<>>, closed |-> FALSE, lines |-> 0, line |-> <<>>]
(***************************************************************************)
(* IRGenerator of the compiler: the nodes its Parser makes and their       *)
(* lowering to instructions                                                *)
(***************************************************************************)
\* nodes as Parser builds them
Identifier(name) == [type |-> "Identifier", name |-> name]
Literal(value) == [type |-> "Literal", value |-> value]
LogicalExpression(operator, left, right) ==
  [type |-> "LogicalExpression", operator |-> operator, left |-> left, right |-> right]
UnaryExpression(operator, argument) ==
  [type |-> "UnaryExpression", operator |-> operator, prefix |-> TRUE, argument |-> argument]
CallExpression(callee, arguments) ==
  [type |-> "CallExpression", callee |-> callee, arguments |-> arguments]
MemberExpression(object, property, computed) ==
  [type |-> "MemberExpression", object |-> object, property |-> property, computed |-> computed]
ArrayExpression(elements) == [type |-> "ArrayExpression", elements |-> elements]
PropertyNode(key, value) ==
  [type |-> "Property", key |-> Identifier(key), value |-> value, kind |-> "init"]
ObjectExpression(properties) == [type |-> "ObjectExpression", properties |-> properties]
AssignmentExpression(left, right) ==
  [type |-> "AssignmentExpression", operator |-> "=", left |-> left, right |-> right]
ExpressionStatement(expr) == [type |-> "ExpressionStatement", expression |-> expr]
BlockStatement(body) == [type |-> "BlockStatement", body |-> body]
VariableDeclaration(name, init) ==
  [type |-> "VariableDeclaration", kind |-> "let",
   declarations |-> <<[type |-> "VariableDeclarator", id |-> Identifier(name), init |-> init]>>]
FunctionDeclaration(name, params, body) ==
  [type |-> "FunctionDeclaration", id |-> Identifier(name), params |-> params,
   body |-> BlockStatement(body)]
IfStatement(test, consequent, alternate) ==
  [type |-> "IfStatement", test |-> test, consequent |-> BlockStatement(consequent),
   alternate |-> alternate]
WhileStatement(test, body) ==
  [type |-> "WhileStatement", test |-> test, body |-> BlockStatement(body)]
ReturnStatement(argument) == [type |-> "ReturnStatement", argument |-> argument]
\* parseForStatement: for variable = start to end { body }
ForStatement(variable, start, end, body) ==
  [type |-> "ForStatement",
   init |-> VariableDeclaration(variable, start),
   test |-> BinaryExpression(Identifier(variable), "<=", end),
   update |-> [type |-> "UpdateExpression", operator |-> "++", prefix |-> FALSE,
               argument |-> Identifier(variable)],
   body |-> BlockStatement(body)]

\* the generator after its constructor
IRGenerator == [instructions |-> <<>>, nextTemp |-> 0, nextLabel |-> 0]

\* a visitor's return: the generator as it leaves it, and the value returned
Visited(g, val) == [g |-> g, val |-> val]

newTemp(g) == Visited([g EXCEPT !.nextTemp = @ + 1], Str("t" \o NatString(g.nextTemp)))

newLabel(g) == Visited([g EXCEPT !.nextLabel = @ + 1], Str("L" \o NatString(g.nextLabel)))

emit(g, op, arg1, arg2, result) ==
  [g EXCEPT !.instructions = Append(@, Instruction(op, arg1, arg2, result))]

\* the visitors IRGenerator has; visitNode returns null for any other node
Visitors ==
  {"VariableDeclaration", "FunctionDeclaration", "BlockStatement", "ExpressionStatement",
   "BinaryExpression", "CallExpression", "Identifier", "Literal", "IfStatement",
   "ForStatement", "WhileStatement", "ReturnStatement", "AssignmentExpression"}

RECURSIVE visitNode(_, _)
RECURSIVE visitAll(_, _, _, _)
RECURSIVE emitAll(_, _, _, _)

\* nodes.map(n => this.visitNode(n)): the values in order
visitAll(nodes, k, g, vals) ==
  IF k > Len(nodes) THEN Visited(g, vals)
  ELSE Let(visitNode(nodes[k], g), LAMBDA v : visitAll(nodes, k + 1, v.g, Append(vals, v.val)))

\* args.forEach(arg => this.emit(op, arg))
emitAll(op, args, k, g) ==
  IF k > Len(args) THEN g ELSE emitAll(op, args, k + 1, emit(g, op, args[k], Null, Null))

visitVariableDeclaration(node, g) ==
  Let(node.declarations[1], LAMBDA decl :
  IF decl.init = NullNode THEN Visited(g, Undefined)
  ELSE Let(visitNode(decl.init, g), LAMBDA value :
       Visited(emit(value.g, "assign", value.val, Null, Str(decl.id.name)), Undefined)))

visitFunctionDeclaration(node, g) ==
  Let(emitAll("param", [k \in 1..Len(node.params) |-> Str(node.params[k].name)], 1,
              emit(g, "function", Str(node.id.name), Null, Null)), LAMBDA head :
  Let(visitNode(node.body, head), LAMBDA body :
  Visited(emit(body.g, "end_function", Null, Null, Null), Undefined)))

visitBlockStatement(node, g) == Visited(visitAll(node.body, 1, g, <<>>).g, Undefined)

visitExpressionStatement(node, g) == visitNode(node.expression, g)

visitBinaryExpression(node, g) ==
  Let(visitNode(node.left, g), LAMBDA left :
  Let(visitNode(node.right, left.g), LAMBDA right :
  Let(newTemp(right.g), LAMBDA result :
  Visited(emit(result.g, node.operator, left.val, right.val, result.val), result.val))))

visitCallExpression(node, g) ==
  Let(visitAll(node.arguments, 1, g, <<>>), LAMBDA args :
  Let(newTemp(emitAll("push", args.val, 1, args.g)), LAMBDA result :
  Let(visitNode(node.callee, result.g), LAMBDA callee :
  Visited(emit(callee.g, "call", callee.val, Num(Len(args.val)), result.val), result.val))))

visitIdentifier(node, g) == Visited(g, Str(node.name))

visitLiteral(node, g) == Visited(g, node.value)

visitIfStatement(node, g) ==
  Let(visitNode(node.test, g), LAMBDA test :
  Let(newLabel(test.g), LAMBDA elseLabel :
  Let(newLabel(elseLabel.g), LAMBDA endLabel :
  Let(visitNode(node.consequent, emit(endLabel.g, "if_false", test.val, Null, elseLabel.val)), LAMBDA consequent :
  Let(emit(emit(consequent.g, "goto", Null, Null, endLabel.val), "label", elseLabel.val, Null, Null), LAMBDA else :
  Let(IF node.alternate = NullNode THEN else ELSE visitNode(node.alternate, else).g, LAMBDA alternate :
  Visited(emit(alternate, "label", endLabel.val, Null, Null), Undefined)))))))

visitForStatement(node, g) ==
  Let(newLabel(g), LAMBDA startLabel :
  Let(newLabel(startLabel.g), LAMBDA endLabel :
  Let(visitNode(node.init, endLabel.g), LAMBDA init :
  Let(visitNode(node.test, emit(init.g, "label", startLabel.val, Null, Null)), LAMBDA test :
  Let(visitNode(node.body, emit(test.g, "if_false", test.val, Null, endLabel.val)), LAMBDA body :
  Let(visitNode(node.update, body.g), LAMBDA update :
  Visited(emit(emit(update.g, "goto", Null, Null, startLabel.val), "label", endLabel.val, Null, Null),
          Undefined)))))))

visitWhileStatement(node, g) ==
  Let(newLabel(g), LAMBDA startLabel :
  Let(newLabel(startLabel.g), LAMBDA endLabel :
  Let(visitNode(node.test, emit(endLabel.g, "label", startLabel.val, Null, Null)), LAMBDA test :
  Let(visitNode(node.body, emit(test.g, "if_false", test.val, Null, endLabel.val)), LAMBDA body :
  Visited(emit(emit(body.g, "goto", Null, Null, startLabel.val), "label", endLabel.val, Null, Null),
          Undefined)))))

visitReturnStatement(node, g) ==
  IF node.argument = NullNode THEN Visited(emit(g, "return", Null, Null, Null), Undefined)
  ELSE Let(visitNode(node.argument, g), LAMBDA value :
       Visited(emit(value.g, "return", value.val, Null, Null), Undefined))

\* node.left.name is undefined when the target is no identifier
visitAssignmentExpression(node, g) ==
  Let(visitNode(node.right, g), LAMBDA value :
  Let(IF node.left.type = "Identifier" THEN Str(node.left.name) ELSE Undefined, LAMBDA target :
  Visited(emit(value.g, "assign", value.val, Null, target), target)))

visitNode(node, g) ==
  CASE node.type = "VariableDeclaration" -> visitVariableDeclaration(node, g)
    [] node.type = "FunctionDeclaration" -> visitFunctionDeclaration(node, g)
    [] node.type = "BlockStatement" -> visitBlockStatement(node, g)
    [] node.type = "ExpressionStatement" -> visitExpressionStatement(node, g)
    [] node.type = "BinaryExpression" -> visitBinaryExpression(node, g)
    [] node.type = "CallExpression" -> visitCallExpression(node, g)
    [] node.type = "Identifier" -> visitIdentifier(node, g)
    [] node.type = "Literal" -> visitLiteral(node, g)
    [] node.type = "IfStatement" -> visitIfStatement(node, g)
    [] node.type = "ForStatement" -> visitForStatement(node, g)
    [] node.type = "WhileStatement" -> visitWhileStatement(node, g)
    [] node.type = "ReturnStatement" -> visitReturnStatement(node, g)
    [] node.type = "AssignmentExpression" -> visitAssignmentExpression(node, g)
    [] OTHER -> Visited(g, Null)

\* no program is being lowered
NoGen == [pc |-> "idle", program |-> <<>>, next |-> 1, g |-> IRGenerator, from |-> 0, val |-> Null]

\* no token sequence has been parsed
NoParse == [pc |-> "idle", tokens |-> <<>>, result |-> PErr("")]

NoLexer == [pc |-> "idle", lx |-> Lexer(<<>>), msg |-> ""]
NoCompile == [entry |-> "none", target |-> <<>>, input |-> <<>>, thrown |-> FALSE, val |-> Null]

Init ==
  /\ evaluator = Evaluator
  /\ outcome = NoOutcome
  /\ lastCode = <<>>
  /\ calls = 0
  /\ loop = NoLoop
  /\ opt = NoOpt
  /\ compiled = NoCompile
  /\ engineB = NoEngineB
  /\ runner = NoRun
  /\ repl = NoRepl
  /\ lexer = NoLexer
  /\ gen = NoGen
  /\ parsing = NoParse

Execute(code) ==
  /\ calls < MaxCalls
  /\ outcome.kind # "hang"
  /\ \E r \in {execute(evaluator, code)} :
       /\ evaluator' = r.evaluator
       /\ outcome' = [kind |-> r.kind, val |-> r.val, message |-> r.message]
  /\ lastCode' = code
  /\ calls' = calls + 1
  /\ UNCHANGED <<loop, opt, compiled, engineB, runner, repl, lexer, gen, parsing>>

Next == \E code \in Sources : Execute(code)

Spec == Init /\ [][Next]_vars

(***************************************************************************)
(* Properties of execute                                                   *)
(***************************************************************************)
\* the source text fails to lex or to parse
SyntaxError(code) ==
  Let(tokenize(code), LAMBDA lexed : ~lexed.ok \/ ~parse(lexed.tokens).ok)

\* C1: an execute call on a source that fails to lex or to parse ends in an
\* error and evaluates nothing: the evaluator (global scope, current scope,
\* console) is the same before and after the call.
C1_SyntaxErrorEvaluatesNothing ==
  [][(calls' = calls + 1 /\ SyntaxError(lastCode'))
       => (outcome'.kind = "error" /\ evaluator' = evaluator)]_vars

\* C1 witness: after an earlier call bound x, a call whose first statement
\* is well-formed and whose later text fails to parse has ended in an error.
C1_Witness ==
  /\ calls >= 2
  /\ "x" \in DOMAIN evaluator.heap[globalScope].vars
  /\ outcome.kind = "error"
  /\ \E lexed \in {tokenize(lastCode)} :
       lexed.ok /\ statement(lexed.tokens, 0).ok /\ ~parse(lexed.tokens).ok

\* C2: a call of a user-defined function yields the value of the first
\* return statement executed in its body and executes nothing after it
\* (print(2) never runs), and yields null when the body executes no return;
\* add(3, 4) yields 7.
C2_CallYieldsFirstReturn ==
  /\ lastCode = SrcReturnFirst =>
       /\ outcome.kind = "value" /\ outcome.val = Num(5)
       /\ evaluator.console[Len(evaluator.console)] = <<Num(1)>>
  /\ \A k \in 1..Len(evaluator.console) : evaluator.console[k] # <<Num(2)>>
  /\ lastCode = SrcNoReturn => (outcome.kind = "value" /\ outcome.val = Null)
  /\ (lastCode = SrcCallAdd /\ outcome.kind = "value") => outcome.val = Num(7)
  /\ lastCode = SrcReturnInTry => (outcome.kind = "value" /\ outcome.val = Num(1))

\* name is bound in no scope of the current scope's parent chain
RECURSIVE UnboundOnChain(_, _, _)
UnboundOnChain(heap, scope, name) ==
  scope = 0 \/ (name \notin DOMAIN heap[scope].vars /\ UnboundOnChain(heap, heap[scope].proto, name))

Unbound(ev, name) ==
  /\ UnboundOnChain(ev.heap, ev.currentScope, name)
  /\ name \notin DOMAIN ev.heap[globalScope].vars
  /\ name \notin BuiltinNames

\* C4: a reference to, or a call of, a name that is bound in no scope of
\* the chain, not in the global scope and not in the builtin table makes
\* execute raise an error.
C4_UnboundNameRaises ==
  /\ (lastCode \in {SrcRefUndefined, SrcCallUndefined} /\ Unbound(evaluator, "undefinedName"))
       => outcome.kind = "error"
  /\ (lastCode \in {SrcRefToString, SrcCallToString} /\ Unbound(evaluator, "toString"))
       => outcome.kind = "error"

\* C5: the bindings made at top level by an execute call that returns
\* normally are in the engine's global scope, and a later call resolves the
\* names to the values last stored: after let x = 10, let y = 20 and
\* let z = x + y, z is 30, and f, which returns x, yields 10.
C5_TopLevelBindingsPersist ==
  LET global == evaluator.heap[globalScope].vars
      Bound(name, v) == name \in DOMAIN global /\ global[name] = v
  IN /\ (lastCode = SrcLetX /\ outcome.kind = "value") => Bound("x", Num(10))
     /\ (lastCode = SrcLetY /\ outcome.kind = "value") => Bound("y", Num(20))
     /\ (lastCode = SrcLetZ /\ outcome.kind = "value") => Bound("z", Num(30))
     /\ (lastCode = SrcCallF /\ ~Unbound(evaluator, "f") /\ ~Unbound(evaluator, "x"))
          => (outcome.kind = "value" /\ outcome.val = Num(10))
(***************************************************************************)
(* Loop statements, followed one test and one body execution at a time     *)
(***************************************************************************)
RECURSIVE NatText(_)
NatText(n) == IF n < 10 THEN <<DigitChars[n + 1]>> ELSE NatText(n \div 10) \o <<DigitChars[(n % 10) + 1]>>

\* the decimal text of an integer
IntText(n) == IF n < 0 THEN <<"-">> \o NatText(-n) ELSE NatText(n)

\* the bodies of the for-loops followed
ForBodies ==
  [empty |-> <<>>,
   print |-> <<"p","r","i","n","t","(","i",")">>,
   declare |-> <<"l","e","t"," ","x"," ","="," ","i">>,
   assign |-> <<"p","r","i","n","t","(","i",")"," ","i"," ","="," ","0">>,
   skip |-> <<"i","f"," ","(","i"," ","=","="," ","1",")"," ","{"," ","c","o","n","t","i","n","u","e"," ","}"," ","p","r","i","n","t","(","i",")">>,
   leave |-> <<"i","f"," ","(","i"," ","=","="," ","2",")"," ","{"," ","b","r","e","a","k"," ","}"," ","l","e","t"," ","x"," ","="," ","i">>]

\* for i = <start> to <end> [step <step>] { <body> }; step is <<>> when the
\* loop has no step clause
ForSource(input) ==
  <<"f","o","r"," ","i"," ","="," ">> \o IntText(input.start) \o <<" ","t","o"," ">> \o IntText(input.end)
    \o (IF input.step = <<>> THEN <<>> ELSE <<" ","s","t","e","p"," ">> \o IntText(input.step[1]))
    \o <<" ","{"," ">> \o ForBodies[input.body] \o <<" ","}">>

\* the for-loops followed; a loop that never ends is followed only with a
\* body that prints nothing and a step of zero, so that its states repeat
ForInputs ==
  {input \in [kind : {"for"}, start : (-1)..(MaxEnd - 1), end : 0..MaxEnd,
              step : {<<>>, <<0>>, <<1>>, <<2>>, <<-1>>}, body : DOMAIN ForBodies] :
     /\ (input.step = <<0>> /\ input.start <= input.end) => input.body \in {"empty", "declare", "leave"}
     /\ input.step = <<-1>> => input.start > input.end}

\* the bodies of the while-loops followed
WhileBodies ==
  [count |-> <<"n"," ","="," ","n"," ","+"," ","1">>,
   print |-> <<"n"," ","="," ","n"," ","+"," ","1"," ","p","r","i","n","t","(","n",")">>,
   skip |-> <<"n"," ","="," ","n"," ","+"," ","1"," ","c","o","n","t","i","n","u","e">>,
   leave |-> <<"b","r","e","a","k">>]

\* while (true) { <body> } when limit is <<>>, while (n < <limit>) { <body> }
\* otherwise
WhileSource(input) ==
  <<"w","h","i","l","e"," ","(">>
    \o (IF input.limit = <<>> THEN <<"t","r","u","e">> ELSE <<"n"," ","<"," ">> \o IntText(input.limit[1]))
    \o <<")"," ","{"," ">> \o WhileBodies[input.body] \o <<" ","}">>

WhileInputs ==
  [kind : {"while"}, limit : {<<>>} \cup {<<k>> : k \in 0..(maxIterations + 2)}, body : DOMAIN WhileBodies]

\* let n = 0
SrcLetN ==
  <<"l","e","t"," ","n"," ","="," ","0">>

\* the engine on which the loops run: n is bound to 0 in the global scope
LoopInit ==
  /\ evaluator = execute(Evaluator, SrcLetN).evaluator
  /\ outcome = NoOutcome
  /\ lastCode = <<>>
  /\ calls = 0
  /\ loop = NoLoop
  /\ opt = NoOpt
  /\ compiled = NoCompile
  /\ engineB = NoEngineB
  /\ runner = NoRun
  /\ repl = NoRepl
  /\ lexer = NoLexer
  /\ gen = NoGen
  /\ parsing = NoParse

Completed(kind, val, message) ==
  [kind |-> kind, val |-> val,
   message |-> IF kind = "error" THEN "Lumos Execution Error: " \o message ELSE ""]

\* the statement of a one-statement program
LoopNode(code) == parse(tokenize(code).tokens).node.statements[1]

\* evaluateForStatement up to the first test of the loop: start, end and
\* step are evaluated and the loop's scope is entered
enterFor(input, node, ev) ==
  Let(evaluateNode(node.start, ev), LAMBDA start :
  Let(evaluateNode(node.end, start.ev), LAMBDA end :
  Let(evaluateNode(node.step, end.ev), LAMBDA step :
  Let(step.ev.currentScope, LAMBDA previousScope :
  [evaluator |-> PushScope(step.ev, previousScope),
   loop |-> [pc |-> "test", input |-> input, node |-> node, i |-> start.val,
             end |-> end.val, step |-> step.val, iterations |-> 0, result |-> Null,
             previousScope |-> previousScope, its |-> <<>>, bodyRuns |-> 0, broke |-> FALSE,
             last |-> <<>>]]))))

EnterFor(input) ==
  /\ loop.pc = "idle"
  /\ lastCode' = ForSource(input)
  /\ \E r \in {enterFor(input, LoopNode(ForSource(input)), evaluator)} :
       evaluator' = r.evaluator /\ loop' = r.loop
  /\ calls' = calls + 1
  /\ UNCHANGED <<outcome, opt, compiled, engineB, runner, repl, lexer, gen, parsing>>

\* i <= end: on to the body, or out of the loop with the scope restored.
\* The body and i += step depend on i and on the evaluator only: a loop at
\* its test with the i and the evaluator of its previous test repeats the
\* same iteration forever, and is followed no further (pc = "hang")
forTestStep(lp, ev, out) ==
  IF forTest(lp.i, lp.end).b
  THEN IF lp.last = <<lp.i, ev>>
       THEN [loop |-> [lp EXCEPT !.pc = "hang"], evaluator |-> ev, outcome |-> out]
       ELSE [loop |-> [lp EXCEPT !.pc = "body", !.last = <<lp.i, ev>>], evaluator |-> ev,
             outcome |-> out]
  ELSE [loop |-> [lp EXCEPT !.pc = "done"],
        evaluator |-> [ev EXCEPT !.currentScope = lp.previousScope],
        outcome |-> Completed("value", lp.result, "")]

ForTest ==
  /\ loop.pc = "test"
  /\ loop.node.type = "ForStatement"
  /\ \E r \in {forTestStep(loop, evaluator, outcome)} :
       loop' = r.loop /\ evaluator' = r.evaluator /\ outcome' = r.outcome
  /\ UNCHANGED <<lastCode, calls, opt, compiled, engineB, runner, repl, lexer, gen, parsing>>

\* one execution of the body of the for-loop, and i += step
forBodyStep(lp, ev, out) ==
  Let(evaluateBlock(lp.node.body, SetCurrent(ev, lp.node.iterator, lp.i)), LAMBDA b :
  Let([lp EXCEPT !.its = IF Len(@) < MaxForIterations THEN Append(@, lp.i) ELSE @], LAMBDA ran :
  Let(Arith("+", lp.i, lp.step), LAMBDA next :
  IF Is(b, "BreakException")
  THEN [loop |-> [ran EXCEPT !.pc = "done", !.broke = TRUE],
        evaluator |-> [b.ev EXCEPT !.currentScope = lp.previousScope],
        outcome |-> Completed("value", lp.result, "")]
  ELSE IF Is(b, "ContinueException")
  THEN [loop |-> [ran EXCEPT !.pc = "test", !.i = next], evaluator |-> b.ev, outcome |-> out]
  ELSE IF b.thrown
  THEN [loop |-> [ran EXCEPT !.pc = "error"], evaluator |-> b.ev,
        outcome |-> Completed("error", Null, b.val.message)]
  ELSE [loop |-> [ran EXCEPT !.pc = "test", !.i = next, !.result = b.val],
        evaluator |-> b.ev, outcome |-> out])))

ForBody ==
  /\ loop.pc = "body"
  /\ loop.node.type = "ForStatement"
  /\ \E r \in {forBodyStep(loop, evaluator, outcome)} :
       loop' = r.loop /\ evaluator' = r.evaluator /\ outcome' = r.outcome
  /\ UNCHANGED <<lastCode, calls, opt, compiled, engineB, runner, repl, lexer, gen, parsing>>

\* evaluateWhileStatement up to the first evaluation of the condition
EnterWhile(input) ==
  /\ loop.pc = "idle"
  /\ lastCode' = WhileSource(input)
  /\ loop' = [pc |-> "test", input |-> input, node |-> LoopNode(WhileSource(input)), i |-> Null,
              end |-> Null, step |-> Null, iterations |-> 0, result |-> Null,
              previousScope |-> evaluator.currentScope, its |-> <<>>, bodyRuns |-> 0,
              broke |-> FALSE, last |-> <<>>]
  /\ calls' = calls + 1
  /\ UNCHANGED <<evaluator, outcome, opt, compiled, engineB, runner, repl, lexer, gen, parsing>>

\* the condition, then the ceiling: if (iterations++ > maxIterations) throw
whileTestStep(lp, ev, out) ==
  Let(evaluateNode(lp.node.condition, ev), LAMBDA c :
  IF c.thrown
  THEN [loop |-> [lp EXCEPT !.pc = "error"], evaluator |-> c.ev,
        outcome |-> Completed("error", Null, c.val.message)]
  ELSE IF ~Truthy(c.val)
  THEN [loop |-> [lp EXCEPT !.pc = "done"], evaluator |-> c.ev,
        outcome |-> Completed("value", lp.result, "")]
  ELSE IF lp.iterations > maxIterations
  THEN [loop |-> [lp EXCEPT !.pc = "error", !.iterations = @ + 1], evaluator |-> c.ev,
        outcome |-> Completed("error", Null, "Infinite loop detected")]
  ELSE [loop |-> [lp EXCEPT !.pc = "body", !.iterations = @ + 1], evaluator |-> c.ev,
        outcome |-> out])

WhileTest ==
  /\ loop.pc = "test"
  /\ loop.node.type = "WhileStatement"
  /\ \E r \in {whileTestStep(loop, evaluator, outcome)} :
       loop' = r.loop /\ evaluator' = r.evaluator /\ outcome' = r.outcome
  /\ UNCHANGED <<lastCode, calls, opt, compiled, engineB, runner, repl, lexer, gen, parsing>>

\* one execution of the body of the while-loop
whileBodyStep(lp, ev, out) ==
  Let(evaluateBlock(lp.node.body, ev), LAMBDA b :
  Let([lp EXCEPT !.bodyRuns = @ + 1], LAMBDA ran :
  IF Is(b, "BreakException")
  THEN [loop |-> [ran EXCEPT !.pc = "done", !.broke = TRUE], evaluator |-> b.ev,
        outcome |-> Completed("value", lp.result, "")]
  ELSE IF Is(b, "ContinueException")
  THEN [loop |-> [ran EXCEPT !.pc = "test"], evaluator |-> b.ev, outcome |-> out]
  ELSE IF b.thrown
  THEN [loop |-> [ran EXCEPT !.pc = "error"], evaluator |-> b.ev,
        outcome |-> Completed("error", Null, b.val.message)]
  ELSE [loop |-> [ran EXCEPT !.pc = "test", !.result = b.val], evaluator |-> b.ev,
        outcome |-> out]))

WhileBody ==
  /\ loop.pc = "body"
  /\ loop.node.type = "WhileStatement"
  /\ \E r \in {whileBodyStep(loop, evaluator, outcome)} :
       loop' = r.loop /\ evaluator' = r.evaluator /\ outcome' = r.outcome
  /\ UNCHANGED <<lastCode, calls, opt, compiled, engineB, runner, repl, lexer, gen, parsing>>

LoopNext ==
  \/ \E input \in ForInputs : EnterFor(input)
  \/ ForTest
  \/ ForBody
  \/ \E input \in WhileInputs : EnterWhile(input)
  \/ WhileTest
  \/ WhileBody

LoopSpec == LoopInit /\ [][LoopNext]_vars

(***************************************************************************)
(* Properties of the loops                                                 *)
(***************************************************************************)
Started == loop.pc # "idle"

\* C3: a for-loop over integers start..end without a step clause, whose
\* body does not break, executes the body max(0, end - start + 1) times
\* with i = start, start + 1, ..., end in this order and raises no error;
\* the body never runs when start > end.
C3_ForRunsInclusiveRange ==
  (Started /\ loop.input.kind = "for" /\ loop.input.step = <<>>) =>
    LET start == loop.input.start
        end == loop.input.end
        times == IF end - start + 1 > 0 THEN end - start + 1 ELSE 0
        bound == [k \in 1..times |-> Num(start + k - 1)]
    IN /\ loop.pc # "error"
       /\ Len(loop.its) <= times
       /\ \A k \in 1..Len(loop.its) : loop.its[k] = bound[k]
       /\ (loop.pc = "done" /\ ~loop.broke) => loop.its = bound

\* C3 witness: a loop without step clause from start to a larger end has
\* been left by its test after three or more executions of the body.
C3_Witness ==
  /\ Started /\ loop.input.kind = "for" /\ loop.input.step = <<>>
  /\ loop.pc = "done" /\ ~loop.broke
  /\ loop.input.start < loop.input.end
  /\ Len(loop.its) >= 3

\* C6: every loop that is entered is eventually left or raises an error:
\* no loop comes to repeat the same iteration forever.
C6_LoopsTerminate == Started => loop.pc # "hang"

\* C7: when the infinite-loop error is raised the body has been executed
\* at most maxIterations times; a loop whose condition becomes falsy after
\* at most maxIterations executions of the body does not raise it, and a
\* loop whose condition stays truthy does not end normally.
C7_CeilingBoundsBodyRuns ==
  (Started /\ loop.input.kind = "while") =>
    /\ (loop.pc = "error" /\ outcome.message = "Lumos Execution Error: Infinite loop detected")
         => loop.bodyRuns <= maxIterations
    /\ (loop.input.limit # <<>> /\ loop.input.limit[1] <= maxIterations) => loop.pc # "error"
    /\ (loop.input.limit = <<>> /\ loop.input.body # "leave") => loop.pc # "done"
(***************************************************************************)
(* The Optimizer as a state machine: an IR sequence is emitted, then       *)
(* passes are applied to it                                                *)
(***************************************************************************)
\* the instructions emitted: arithmetic on literals and on names, an
\* assignment, jumps and labels, a label emitted without a name, a return;
\* and, as the passes take any value for a name, a label named by the
\* number 5 and a nameless label that carries 5 as its result
Instructions ==
  {Instruction("+", Num(7), Num(2), Str("t0")),
   Instruction("-", Num(2), Num(7), Str("t1")),
   Instruction("*", Num(-7), Num(2), Str("t0")),
   Instruction("/", Num(7), Num(2), Str("t1")),
   Instruction("%", Num(-7), Num(2), Str("t0")),
   Instruction("/", Num(-7), Num(0), Str("t1")),
   Instruction("%", Num(7), Num(0), Str("t0")),
   Instruction("+", Str("x"), Str("y"), Str("t0")),
   Instruction("+", Str("x"), Str("y"), Str("t1")),
   Instruction("*", Str("t0"), Num(2), Str("t1")),
   Instruction("assign", Num(5), Null, Str("x")),
   Instruction("if_false", Str("t0"), Null, Str("L1")),
   Instruction("goto", Null, Null, Str("L0")),
   Instruction("label", Str("L0"), Null, Null),
   Instruction("label", Str("L1"), Null, Null),
   Instruction("label", Null, Null, Null),
   Instruction("label", Num(5), Null, Null),
   Instruction("label", Null, Null, Num(5)),
   Instruction("return", Str("t1"), Null, Null)}

OptInit ==
  /\ evaluator = Evaluator
  /\ outcome = NoOutcome
  /\ lastCode = <<>>
  /\ calls = 0
  /\ loop = NoLoop
  /\ opt = NoOpt
  /\ compiled = NoCompile
  /\ engineB = NoEngineB
  /\ runner = NoRun
  /\ repl = NoRepl
  /\ lexer = NoLexer
  /\ gen = NoGen
  /\ parsing = NoParse

Emit(inst) ==
  /\ opt.pass \in {"none", "emit"}
  /\ Len(opt.ir) < MaxIR
  /\ opt' = [opt EXCEPT !.pass = "emit", !.ir = Append(@, inst)]
  /\ UNCHANGED <<evaluator, outcome, lastCode, calls, loop, compiled, engineB, runner, repl, lexer, gen, parsing>>

\* pass is applied to the sequence held, which becomes the input of the pass
Apply(name, result) ==
  /\ opt.pass # "none"
  /\ opt.passes < MaxPasses
  /\ opt' = [pass |-> name, input |-> opt.ir, ir |-> result, passes |-> opt.passes + 1]
  /\ UNCHANGED <<evaluator, outcome, lastCode, calls, loop, compiled, engineB, runner, repl, lexer, gen, parsing>>

ConstantFolding == Apply("constantFolding", constantFolding(opt.ir))

DeadCodeElimination == Apply("deadCodeElimination", deadCodeElimination(opt.ir))

CommonSubexpressionElimination ==
  Apply("commonSubexpressionElimination", commonSubexpressionElimination(opt.ir))

Optimize == Apply("optimize", optimize(opt.ir))

OptNext ==
  \/ \E inst \in Instructions : Emit(inst)
  \/ ConstantFolding
  \/ DeadCodeElimination
  \/ CommonSubexpressionElimination
  \/ Optimize

OptSpec == OptInit /\ [][OptNext]_vars

(***************************************************************************)
(* Properties of the Optimizer                                             *)
(***************************************************************************)
\* v is the number that op yields on the integers a and b
Computed(op, a, b, v) ==
  /\ IsNumber(v)
  /\ CASE op = "+" -> v = Num(a + b)
       [] op = "-" -> v = Num(a - b)
       [] op = "*" -> v = Num(a * b)
       [] op = "/" -> IF b = 0 THEN v.den = 0 /\ v.num = Sign(a)
                      ELSE v.den > 0 /\ v.num * b = a * v.den
       [] op = "%" -> IF b = 0 THEN IsNaN(v)
                      ELSE /\ v.den = 1
                           /\ Abs(v.num) < Abs(b)
                           /\ v.num * a >= 0
                           /\ \E q \in (-Abs(a))..Abs(a) : a = q * b + v.num

Foldable(inst) == inst.op \in ArithmeticOps /\ IsNumber(inst.arg1) /\ IsNumber(inst.arg2)

\* C8: constant folding keeps the length and the order of the sequence,
\* turns every + - * / % on two literal numbers into an assign of the
\* computed number to the same result, and leaves every other instruction
\* as it is; when all arithmetic has literal operands none is left.
C8_ConstantFoldingFolds ==
  opt.pass = "constantFolding" =>
    /\ Len(opt.ir) = Len(opt.input)
    /\ \A k \in 1..Len(opt.input) :
         LET inst == opt.input[k]
             out == opt.ir[k]
         IN IF Foldable(inst)
            THEN /\ out.op = "assign" /\ out.arg2 = Null /\ out.result = inst.result
                 /\ Computed(inst.op, inst.arg1.num, inst.arg2.num, out.arg1)
            ELSE out = inst
    /\ (\A k \in 1..Len(opt.input) : opt.input[k].op \in ArithmeticOps => Foldable(opt.input[k]))
         => \A k \in 1..Len(opt.ir) : opt.ir[k].op \notin ArithmeticOps

\* C8 witness: constant folding has been applied to a sequence holding a
\* remainder on literals, a division on literals and an addition on names.
C8_Witness ==
  /\ opt.pass = "constantFolding"
  /\ \E k \in 1..Len(opt.input) : Foldable(opt.input[k]) /\ opt.input[k].op = "%"
  /\ \E k \in 1..Len(opt.input) : Foldable(opt.input[k]) /\ opt.input[k].op = "/"
  /\ \E k \in 1..Len(opt.input) : opt.input[k].op = "+" /\ ~Foldable(opt.input[k])

\* the instructions of the input that the pass removed
Removed == {opt.input[k] : k \in 1..Len(opt.input)} \ {opt.ir[k] : k \in 1..Len(opt.ir)}

\* the name an instruction produces: a label its name, any other its result
Produced(inst) == IF inst.op = "label" THEN inst.arg1 ELSE inst.result

\* the names an instruction reads, as operands or as jump target
Reads(inst) ==
  {v \in {inst.arg2} \cup (IF inst.op = "label" THEN {} ELSE {inst.arg1})
            \cup (IF inst.op \in {"goto", "if_false"} THEN {inst.result} ELSE {}) : IsName(v)}

\* C9: after dead-code elimination no instruction of the output reads, as
\* operand or as jump target, a name whose producing instruction or label
\* the pass removed.
C9_NoReadOfRemovedName ==
  opt.pass = "deadCodeElimination" =>
    \A removed \in Removed : \A k \in 1..Len(opt.ir) : Produced(removed) \notin Reads(opt.ir[k])

\* C9 witness: dead-code elimination has removed an instruction from a
\* sequence and has kept a jump and its label.
C9_Witness ==
  /\ opt.pass = "deadCodeElimination"
  /\ Removed # {}
  /\ \E j, k \in 1..Len(opt.ir) :
       opt.ir[j].op \in {"goto", "if_false"} /\ opt.ir[k].op = "label" /\ opt.ir[k].arg1 = opt.ir[j].result

\* t0 = x + y; x = 5; t1 = x + y
RecomputedSum ==
  <<Instruction("+", Str("x"), Str("y"), Str("t0")),
    Instruction("assign", Num(5), Null, Str("x")),
    Instruction("+", Str("x"), Str("y"), Str("t1"))>>

\* C10: on t0 = x + y; x = 5; t1 = x + y common-subexpression elimination
\* does not replace the instruction producing t1 by an assign from t0: t1
\* stays the addition of x and y.
C10_RecomputedSumIsKept ==
  (opt.pass = "commonSubexpressionElimination" /\ opt.input = RecomputedSum)
    => opt.ir[3] = RecomputedSum[3]

\* C10 as amended: on t0 = x + y; x = 5; t1 = x + y common-subexpression
\* elimination replaces the instruction producing t1 by an assign from t0,
\* the assignment to x in between notwithstanding, and leaves the first two
\* instructions as they are.
C10_RecomputedSumIsReplaced ==
  (opt.pass = "commonSubexpressionElimination" /\ opt.input = RecomputedSum)
    => opt.ir = <<RecomputedSum[1], RecomputedSum[2],
                  Instruction("assign", Str("t0"), Null, Str("t1"))>>

\* C10 witness: common-subexpression elimination has been applied to
\* t0 = x + y; x = 5; t1 = x + y.
C10_Witness ==
  /\ opt.pass = "commonSubexpressionElimination"
  /\ opt.input = RecomputedSum
  /\ Len(opt.ir) = 3

\* label 5; a nameless label with result 5
NumberedLabels ==
  <<Instruction("label", Num(5), Null, Null), Instruction("label", Null, Null, Num(5))>>

C11_OnlyNumberedLabels ==
  (opt.pass = "optimize" /\ optimize(opt.ir) # opt.ir)
    => \E k \in 1..Len(opt.ir) :
         opt.ir[k].op = "label" /\ Truthy(opt.ir[k].arg1) /\ ~IsName(opt.ir[k].arg1)

(***************************************************************************)
(* Compiling to a target: LumosEngine.compileToTarget through              *)
(* Compiler.compile, and LumosCompiler.compile through codeGen             *)
(***************************************************************************)
UpperCaseLetters ==
  <<"A","B","C","D","E","F","G","H","I","J","K","L","M","N","O","P","Q","R","S","T","U","V","W","X","Y","Z">>
LowerCaseLetters ==
  <<"a","b","c","d","e","f","g","h","i","j","k","l","m","n","o","p","q","r","s","t","u","v","w","x","y","z">>

\* target.toLowerCase(), character by character
toLowerCase(target) ==
  [k \in 1..Len(target) |->
     IF \E n \in 1..26 : UpperCaseLetters[n] = target[k]
     THEN LowerCaseLetters[CHOOSE n \in 1..26 : UpperCaseLetters[n] = target[k]]
     ELSE target[k]]

\* the own keys of Compiler.backends
BackendNames ==
  {"x86", "arm", "wasm", "c", "cpp", "rust", "go", "java", "csharp", "swift",
   "python", "ruby", "php", "perl", "lua", "javascript", "typescript", "bash",
   "powershell", "vbscript", "haskell", "scala", "elixir", "erlang", "fsharp", "clojure",
   "html", "css", "jsx", "vue", "sql", "postgresql", "mysql", "sqlite", "mongodb",
   "ada", "cobol", "fortran", "lisp", "prolog", "mlang"}

\* object[name] of an object literal with the own keys named: an own
\* property, else what Object.prototype has under that name, else undefined
Property(own, name) ==
  IF name \in own THEN [t |-> "backend", name |-> name]
  ELSE IF name \in DOMAIN ObjectPrototype THEN ObjectPrototype[name]
  ELSE Undefined

\* backend.generate(ast, options): the text a backend generates
generate(backend, ast) == [t |-> "text", of |-> backend.name]

\* Compiler.compile(ast, target)
compile(ast, target) ==
  Let(substring(toLowerCase(target), 0, Len(target)), LAMBDA normalizedTarget :
  Let(Property(BackendNames, normalizedTarget), LAMBDA backend :
  IF backend = Undefined
  THEN [thrown |-> TRUE, val |-> Error("Unsupported compilation target: " \o substring(target, 0, Len(target)))]
  ELSE IF backend.t # "backend"
  THEN [thrown |-> TRUE, val |-> TypeError("backend.generate is not a function")]
  ELSE [thrown |-> FALSE, val |-> generate(backend, ast)]))

\* LumosEngine.compileToTarget(code, target): nothing wraps what the lexer,
\* the parser or the compiler throw
compileToTarget(code, target) ==
  Let(tokenize(code), LAMBDA lexed :
  IF ~lexed.ok THEN [thrown |-> TRUE, val |-> Error(lexed.msg)] ELSE
  Let(parse(lexed.tokens), LAMBDA parsed :
  IF ~parsed.ok THEN [thrown |-> TRUE, val |-> Error(parsed.msg)]
  ELSE compile(parsed.node, target)))

\* the names bound at the top level of the module of LumosCompiler
ModuleBindings ==
  {"fs", "path", "LumosCompiler", "Parser", "TypeSystem", "SemanticAnalyzer", "IRGenerator",
   "Optimizer", "CompilationError"}

\* the properties of codeGen's generators literal, in order, each with the
\* class its initialiser constructs
generators ==
  <<[name |-> "javascript", class |-> "JavaScriptGenerator"],
    [name |-> "typescript", class |-> "TypeScriptGenerator"],
    [name |-> "python", class |-> "PythonGenerator"],
    [name |-> "php", class |-> "PHPGenerator"],
    [name |-> "ruby", class |-> "RubyGenerator"],
    [name |-> "go", class |-> "GoGenerator"],
    [name |-> "rust", class |-> "RustGenerator"],
    [name |-> "c", class |-> "CGenerator"],
    [name |-> "cpp", class |-> "CppGenerator"],
    [name |-> "csharp", class |-> "CSharpGenerator"],
    [name |-> "java", class |-> "JavaGenerator"],
    [name |-> "elixir", class |-> "ElixirGenerator"],
    [name |-> "fsharp", class |-> "FSharpGenerator"],
    [name |-> "ada", class |-> "AdaGenerator"],
    [name |-> "dlang", class |-> "DlangGenerator"],
    [name |-> "assembly", class |-> "AssemblyGenerator"],
    [name |-> "llvm", class |-> "LLVMGenerator"]>>

GeneratorNames == {generators[k].name : k \in DOMAIN generators}

\* LumosCompiler.codeGen(ir, targetLang): the literal is built first, and
\* the first class that is not bound ends the call
codeGen(ir, targetLang) ==
  Let(SelectSeq(generators, LAMBDA g : g.class \notin ModuleBindings), LAMBDA unbound :
  Let(Property(GeneratorNames, substring(targetLang, 0, Len(targetLang))), LAMBDA generator :
  IF unbound # <<>>
  THEN [thrown |-> TRUE, val |-> Exception("ReferenceError", unbound[1].class \o " is not defined", Null)]
  ELSE IF generator = Undefined
  THEN [thrown |-> TRUE, val |-> Error("Unsupported target language: " \o substring(targetLang, 0, Len(targetLang)))]
  ELSE IF generator.t # "backend"
  THEN [thrown |-> TRUE, val |-> TypeError("generator.generate is not a function")]
  ELSE [thrown |-> FALSE, val |-> generate(generator, ir)]))

\* LumosCompiler.compile(sourceCode, targetLang) from the instruction
\* sequence generateIR made of the source on: optimize, codeGen, and the
\* catch clause that wraps whatever was thrown
LumosCompiler_compile(ir, targetLang) ==
  Let(codeGen(optimize(ir), targetLang), LAMBDA r :
  IF r.thrown
  THEN [thrown |-> TRUE, val |-> Exception("CompilationError", "Compilation failed: " \o r.val.message, Null)]
  ELSE r)

TgtJavascript == <<"j","a","v","a","s","c","r","i","p","t">>
TgtJavaScript == <<"J","a","v","a","S","c","r","i","p","t">>
TgtRuby == <<"r","u","b","y">>
TgtCobol == <<"c","o","b","o","l">>
TgtDlang == <<"d","l","a","n","g">>
TgtKotlin == <<"k","o","t","l","i","n">>
TgtBrainfuck == <<"b","r","a","i","n","f","u","c","k">>
TgtConstructor == <<"c","o","n","s","t","r","u","c","t","o","r">>

Targets ==
  {TgtJavascript, TgtJavaScript, TgtRuby, TgtCobol, TgtDlang, TgtKotlin, TgtBrainfuck, TgtConstructor}

CompileSources == {SrcLetX, SrcDefAdd, SrcCallAdd, SrcParseError}

\* instruction sequences generateIR has made of well-formed sources
CompileIRs ==
  {<<>>,
   <<Instruction("assign", Num(5), Null, Str("x"))>>,
   <<Instruction("+", Str("x"), Str("y"), Str("t0")), Instruction("*", Str("t0"), Num(2), Str("t1"))>>}

CompileInit ==
  /\ evaluator = Evaluator
  /\ outcome = NoOutcome
  /\ lastCode = <<>>
  /\ calls = 0
  /\ loop = NoLoop
  /\ opt = NoOpt
  /\ compiled = NoCompile
  /\ engineB = NoEngineB
  /\ runner = NoRun
  /\ repl = NoRepl
  /\ lexer = NoLexer
  /\ gen = NoGen
  /\ parsing = NoParse

\* engine.compileToTarget(code, target)
CompileToTarget(code, target) ==
  /\ calls < MaxCalls
  /\ \E r \in {compileToTarget(code, target)} :
       compiled' = [entry |-> "compileToTarget", target |-> target, input |-> code,
                    thrown |-> r.thrown, val |-> r.val]
  /\ lastCode' = code
  /\ calls' = calls + 1
  /\ UNCHANGED <<evaluator, outcome, loop, opt, engineB, runner, repl, lexer, gen, parsing>>

\* new LumosCompiler().compile(sourceCode, targetLang), sourceCode a
\* well-formed source with the instruction sequence ir
LumosCompile(ir, target) ==
  /\ calls < MaxCalls
  /\ \E r \in {LumosCompiler_compile(ir, target)} :
       compiled' = [entry |-> "compile", target |-> target, input |-> ir,
                    thrown |-> r.thrown, val |-> r.val]
  /\ calls' = calls + 1
  /\ UNCHANGED <<evaluator, outcome, lastCode, loop, opt, engineB, runner, repl, lexer, gen, parsing>>

CompileNext ==
  \/ \E code \in CompileSources, target \in Targets : CompileToTarget(code, target)
  \/ \E ir \in CompileIRs, target \in Targets : LumosCompile(ir, target)

CompileSpec == CompileInit /\ [][CompileNext]_vars

\* the compile call was made on well-formed source
WellFormed ==
  \/ compiled.entry = "compile"
  \/ compiled.entry = "compileToTarget" /\ ~SyntaxError(compiled.input)

\* a backend is registered under the target name of the call
Registered ==
  \/ compiled.entry = "compileToTarget"
       /\ substring(toLowerCase(compiled.target), 0, Len(compiled.target)) \in BackendNames
  \/ compiled.entry = "compile"
       /\ substring(compiled.target, 0, Len(compiled.target)) \in GeneratorNames

\* the call raised an unsupported-target error
UnsupportedTargetError ==
  /\ compiled.thrown
  /\ compiled.val.message \in
       {"Unsupported compilation target: " \o substring(compiled.target, 0, Len(compiled.target)),
        "Unsupported target language: " \o substring(compiled.target, 0, Len(compiled.target)),
        "Compilation failed: Unsupported target language: "
           \o substring(compiled.target, 0, Len(compiled.target))}

\* C12: compiling well-formed source to a target name with no registered
\* backend raises an unsupported-target error that names the target, in both
\* entry points, and for a registered target name no such error is raised
C12_UnsupportedTargetRaises ==
  WellFormed => (UnsupportedTargetError <=> ~Registered)

(***************************************************************************)
(* Two engines: new LumosEngine() twice, and execute calls on either       *)
(***************************************************************************)
\* constructor.prototype.leak = 1
SrcSetLeak ==
  <<"c","o","n","s","t","r","u","c","t","o","r",".","p","r","o","t","o","t","y","p","e",".","l","e","a","k"," ","="," ","1">>
\* leak
SrcRefLeak ==
  <<"l","e","a","k">>

EngineSources == {SrcLetX, SrcLetY, SrcLetZ, SrcLoopError, SrcSetLeak, SrcRefLeak}

EngineInit ==
  /\ evaluator = Evaluator
  /\ outcome = NoOutcome
  /\ lastCode = <<>>
  /\ calls = 0
  /\ loop = NoLoop
  /\ opt = NoOpt
  /\ compiled = NoCompile
  /\ engineB = NoEngineB
  /\ runner = NoRun
  /\ repl = NoRepl
  /\ lexer = NoLexer
  /\ gen = NoGen
  /\ parsing = NoParse

\* engineA.execute(code); Object.prototype is the same object for both
\* engines, so what the call adds to it is there for engine B as well
ExecuteA(code) ==
  /\ calls < MaxCalls
  /\ \E r \in {execute(evaluator, code)} :
       /\ evaluator' = r.evaluator
       /\ engineB' = [engineB EXCEPT !.evaluator.added = r.evaluator.added]
       /\ outcome' = [kind |-> r.kind, val |-> r.val, message |-> r.message]
  /\ lastCode' = code
  /\ calls' = calls + 1
  /\ UNCHANGED <<loop, opt, compiled, runner, repl, lexer, gen, parsing>>

\* engineB.execute(code)
ExecuteB(code) ==
  /\ calls < MaxCalls
  /\ \E r \in {execute(engineB.evaluator, code)} :
       /\ engineB' = [evaluator |-> r.evaluator, executed |-> Append(engineB.executed, code)]
       /\ evaluator' = [evaluator EXCEPT !.added = r.evaluator.added]
       /\ outcome' = [kind |-> r.kind, val |-> r.val, message |-> r.message]
  /\ lastCode' = code
  /\ calls' = calls + 1
  /\ UNCHANGED <<loop, opt, compiled, runner, repl, lexer, gen, parsing>>

EngineNext ==
  \/ \E code \in EngineSources : ExecuteA(code)
  \/ \E code \in EngineSources : ExecuteB(code)

EngineSpec == EngineInit /\ [][EngineNext]_vars

\* the names some object an evaluator can reach has as own property
OwnNames(ev) ==
  UNION {DOMAIN ev.heap[k].vars : k \in 1..Len(ev.heap)} \cup DOMAIN ev.added
    \cup DOMAIN ObjectPrototype

\* the bindings visible from a scope: every name `name in scope` holds of,
\* with the value scope[name]
Visible(ev, scope) ==
  [n \in {m \in OwnNames(ev) : HasProperty(ev, scope, m)} |-> GetProperty(ev, scope, n)]

\* C13: two engines are isolated: a call on engine A (a step that executes
\* nothing on B) adds, removes or changes no binding visible from the global
\* scope or the current scope of B
C13_EnginesIsolated ==
  [][engineB'.executed = engineB.executed =>
       /\ Visible(engineB'.evaluator, globalScope) = Visible(engineB.evaluator, globalScope)
       /\ Visible(engineB'.evaluator, engineB'.evaluator.currentScope)
            = Visible(engineB.evaluator, engineB.evaluator.currentScope)]_vars

(***************************************************************************)
(* FileRunner (src/cli/fileRunner.js): run executes a file line by line    *)
(***************************************************************************)
MaxLines == 3

\* the positions of the line feeds of a text, and the n-th of them
LineFeeds(code) == {k \in 1..Len(code) : code[k] = "\n"}
LineFeed(code, n) ==
  CHOOSE k \in LineFeeds(code) : Cardinality({j \in LineFeeds(code) : j < k}) = n - 1

\* code.split(/\r?\n/): the texts between the line feeds, a carriage return
\* just before a line feed belonging to the separator
split(code) ==
  [n \in 1..(Cardinality(LineFeeds(code)) + 1) |->
     Let(IF n = 1 THEN 1 ELSE LineFeed(code, n - 1) + 1, LAMBDA first :
     Let(IF n = Cardinality(LineFeeds(code)) + 1 THEN Len(code)
         ELSE IF LineFeed(code, n) > first /\ code[LineFeed(code, n) - 1] = "\r"
         THEN LineFeed(code, n) - 2
         ELSE LineFeed(code, n) - 1, LAMBDA last :
     SubSeq(code, first, last)))]

WhiteSpace == {" ", "\t", "\r", "\n"}

\* line.trim()
trim(line) ==
  Let({k \in 1..Len(line) : line[k] \notin WhiteSpace}, LAMBDA inked :
  IF inked = {} THEN <<>>
  ELSE SubSeq(line, CHOOSE k \in inked : \A j \in inked : k <= j,
                    CHOOSE k \in inked : \A j \in inked : k >= j))

\* trimmed.startsWith('//')
startsWithSlashes(trimmed) == Len(trimmed) >= 2 /\ trimmed[1] = "/" /\ trimmed[2] = "/"

\* the loop of FileRunner.run from line lineNumber on; r holds the engine's
\* evaluator, the texts handed to engine.execute so far, what was written to
\* the console, and the result of the last line executed
RECURSIVE runLoop(_, _, _)
runLoop(lines, lineNumber, r) ==
  IF lineNumber > Len(lines) THEN r
  ELSE IF trim(lines[lineNumber]) = <<>> \/ startsWithSlashes(trim(lines[lineNumber]))
  THEN runLoop(lines, lineNumber + 1, r)
  ELSE Let(execute(r.evaluator, trim(lines[lineNumber])), LAMBDA result :
       IF result.kind = "value"
       THEN runLoop(lines, lineNumber + 1,
              [evaluator |-> result.evaluator, thrown |-> FALSE, val |-> result.val,
               executed |-> Append(r.executed, trim(lines[lineNumber])),
               output |-> IF result.val \in {Null, Undefined} THEN r.output
                          ELSE Append(r.output, <<"log", lineNumber, result.val>>)])
       ELSE [evaluator |-> result.evaluator, thrown |-> TRUE, val |-> Error(result.message),
             executed |-> Append(r.executed, trim(lines[lineNumber])),
             output |-> Append(r.output, <<"error", lineNumber, result.message>>)])

\* a run that goes on with the next line after a line has raised
RECURSIVE runLoopKeepGoing(_, _, _)
runLoopKeepGoing(lines, lineNumber, r) ==
  IF lineNumber > Len(lines) THEN r
  ELSE IF trim(lines[lineNumber]) = <<>> \/ startsWithSlashes(trim(lines[lineNumber]))
  THEN runLoopKeepGoing(lines, lineNumber + 1, r)
  ELSE Let(execute(r.evaluator, trim(lines[lineNumber])), LAMBDA result :
       runLoopKeepGoing(lines, lineNumber + 1,
              [evaluator |-> result.evaluator, thrown |-> r.thrown \/ result.kind # "value",
               val |-> IF r.thrown THEN r.val
                       ELSE IF result.kind = "value" THEN result.val ELSE Error(result.message),
               executed |-> Append(r.executed, trim(lines[lineNumber])),
               output |-> r.output]))

runKeepGoing(ev, code) ==
  runLoopKeepGoing(split(code), 1,
          [evaluator |-> ev, thrown |-> FALSE, val |-> Null, executed |-> <<>>, output |-> <<>>])

\* FileRunner.run(filepath) on an engine, code the text of the file
run(ev, code) ==
  runLoop(split(code), 1,
          [evaluator |-> ev, thrown |-> FALSE, val |-> Null, executed |-> <<>>, output |-> <<>>])

\* let x = 10
LineLetX == <<"l","e","t"," ","x"," ","="," ","1","0">>
\* an empty line
LineEmpty == <<>>
\* a comment after two spaces
LineComment == <<" "," ","/","/"," ","u">>
\* let y = x after a tab, with a carriage return at its end
LineLetY == <<"\t","l","e","t"," ","y"," ","="," ","x","\r">>
\* a name nothing binds
LineU == <<"u">>
\* x
LineX == <<"x">>

FileLines == {LineLetX, LineEmpty, LineComment, LineLetY, LineU, LineX}

\* lines joined by line feeds
RECURSIVE join(_)
join(lines) == IF Len(lines) = 1 THEN lines[1] ELSE lines[1] \o <<"\n">> \o join(Tail(lines))

\* the files: one to MaxLines lines
Files == {join(lines) : lines \in UNION {[1..n -> FileLines] : n \in 1..MaxLines}}

RunInit ==
  /\ evaluator = Evaluator
  /\ outcome = NoOutcome
  /\ lastCode = <<>>
  /\ calls = 0
  /\ loop = NoLoop
  /\ opt = NoOpt
  /\ compiled = NoCompile
  /\ engineB = NoEngineB
  /\ runner = NoRun
  /\ repl = NoRepl
  /\ lexer = NoLexer
  /\ gen = NoGen
  /\ parsing = NoParse

\* engine.runFile(filepath), the file holding code
RunFile(code) ==
  /\ runner.pc = "idle"
  /\ \E r \in {run(evaluator, code)} :
       /\ evaluator' = r.evaluator
       /\ runner' = [pc |-> IF r.thrown THEN "raised" ELSE "returned", file |-> code,
                     executed |-> r.executed, output |-> r.output, val |-> r.val]
  /\ UNCHANGED <<outcome, lastCode, calls, loop, opt, compiled, engineB, repl, lexer, gen, parsing>>

\* engine.execute(code) once the file has been run
ExecuteAfterRun(code) ==
  /\ runner.pc # "idle"
  /\ Execute(code)

RunNext ==
  \/ \E code \in Files : RunFile(code)
  \/ \E code \in {LineX, LineU} : ExecuteAfterRun(code)

RunSpec == RunInit /\ [][RunNext]_vars

\* the lines of a file that are neither blank nor comments, trimmed, in
\* file order
Statements(code) ==
  Let(SelectSeq(split(code), LAMBDA line :
        trim(line) # <<>> /\ ~startsWithSlashes(trim(line))), LAMBDA lines :
  [k \in 1..Len(lines) |-> trim(lines[k])])

\* the engine after the first k of the texts were executed on it in order
RECURSIVE After(_, _, _)
After(ev, texts, k) ==
  IF k = 0 THEN ev ELSE execute(After(ev, texts, k - 1), texts[k]).evaluator

\* what executing the k-th text yields, the ones before it executed
Yield(texts, k) == execute(After(Evaluator, texts, k - 1), texts[k])

\* C14: run executes the non-blank, non-// lines of the file one at a time
\* in file order on the same engine; when the execute call of a line raises,
\* run rethrows that error and executes no later line, and the effects of
\* the earlier lines on the engine's scope remain
C14_RunStopsAtFirstRaisingLine ==
  runner.pc # "idle" =>
    LET texts == Statements(runner.file)
        n == Len(runner.executed)
    IN /\ n <= Len(texts)
       /\ runner.executed = SubSeq(texts, 1, n)
       /\ \A k \in 1..(n - 1) : Yield(texts, k).kind = "value"
       /\ runner.pc = "returned" => n = Len(texts) /\ (n > 0 => Yield(texts, n).kind = "value")
       /\ runner.pc = "raised" =>
            /\ n >= 1
            /\ Yield(texts, n).kind = "error"
            /\ runner.val.message = Yield(texts, n).message
       /\ calls = 0 => evaluator = After(Evaluator, texts, n)

\* a run in which the second statement raised with a third left, x, bound
\* by the first, still bound
C14_Witness ==
  /\ runner.pc = "raised"
  /\ calls = 0
  /\ Len(runner.executed) = 2
  /\ Len(Statements(runner.file)) = 3
  /\ Len(split(runner.file)) = 3
  /\ "x" \in DOMAIN evaluator.heap[globalScope].vars
  /\ runner.val.message = "Lumos Execution Error: Undefined variable: u"

(***************************************************************************)
(* REPL (src/cli/repl.js): handleLine on each line the terminal delivers   *)
(***************************************************************************)
MaxReplLines == 3

\* line.startsWith(prefix) and line.endsWith(suffix)
startsWith(line, prefix) == Len(line) >= Len(prefix) /\ SubSeq(line, 1, Len(prefix)) = prefix
endsWith(line, suffix) ==
  Len(line) >= Len(suffix) /\ SubSeq(line, Len(line) - Len(suffix) + 1, Len(line)) = suffix

\* REPL.executeCode(code): the code goes to the history, then to the engine;
\* a result other than null and undefined is printed after =>, an error
\* after Error:
executeCode(r, code) ==
  Let(execute(r.evaluator, code), LAMBDA result :
  [evaluator |-> result.evaluator,
   repl |-> [r.repl EXCEPT
               !.history = Append(@, code),
               !.output = IF result.kind # "value" THEN Append(@, <<"Error: ", result.message>>)
                          ELSE IF result.val \in {Null, Undefined} THEN @
                          ELSE Append(@, <<"=> ", result.val>>)]])

\* REPL.handleCommand(cmd): .exit and .quit close the terminal, every other
\* command prints and prompts again
handleCommand(r, cmd) ==
  IF startsWith(cmd, <<".","e","x","i","t">>) \/ startsWith(cmd, <<".","q","u","i","t">>)
  THEN [r EXCEPT !.repl.closed = TRUE, !.repl.output = Append(@, <<"Goodbye!", Null>>)]
  ELSE [r EXCEPT !.repl.output = Append(@, <<substring(cmd, 0, Len(cmd)), Null>>)]

\* REPL.handleLine(line), r the engine's evaluator and the REPL
handleLine(r, line) ==
  IF line = <<>> THEN r
  ELSE IF startsWith(line, <<".">>) THEN handleCommand(r, line)
  ELSE IF r.repl.inMultilineMode
  THEN IF line = <<"e","n","d">> \/ line = <<"}">>
       THEN Let(executeCode(r, r.repl.multilineBuffer \o <<"\n">> \o line), LAMBDA x :
            [x EXCEPT !.repl.multilineBuffer = <<>>, !.repl.inMultilineMode = FALSE,
                      !.repl.prompt = "lumos> "])
       ELSE [r EXCEPT !.repl.multilineBuffer = @ \o <<"\n">> \o line, !.repl.prompt = "...    "]
  ELSE IF endsWith(line, <<"{">>) \/ startsWith(line, <<"d","e","f"," ">>) \/ startsWith(line, <<"c","l","a","s","s"," ">>)
       THEN [r EXCEPT !.repl.multilineBuffer = line, !.repl.inMultilineMode = TRUE,
                      !.repl.prompt = "...    "]
       ELSE [executeCode(r, line) EXCEPT !.repl.prompt = "lumos> "]

\* while (x < 3) {
LineWhileOpen == <<"w","h","i","l","e"," ","(","x"," ","<"," ","3",")"," ","{">>
\* x = x + 1
LineIncrement == <<"x"," ","="," ","x"," ","+"," ","1">>
LineClose == <<"}">>
LineHistory == <<".","h","i","s","t","o","r","y">>

\* the lines typed: the README's session (a one-line definition, then a call
\* of it), a block typed over three lines, a command, an empty line
ReplLines ==
  {SrcDefAdd, SrcCallAdd, SrcLetX, LineWhileOpen, LineIncrement, LineClose, LineHistory, LineEmpty,
   LineComment}

ReplInit ==
  /\ evaluator = Evaluator
  /\ outcome = NoOutcome
  /\ lastCode = <<>>
  /\ calls = 0
  /\ loop = NoLoop
  /\ opt = NoOpt
  /\ compiled = NoCompile
  /\ engineB = NoEngineB
  /\ runner = NoRun
  /\ repl = NoRepl
  /\ lexer = NoLexer
  /\ gen = NoGen
  /\ parsing = NoParse

\* the terminal's line event: handleLine(line.trim())
Line(line) ==
  /\ ~repl.closed
  /\ repl.lines < MaxReplLines
  /\ \E r \in {handleLine([evaluator |-> evaluator, repl |-> repl], trim(line))} :
       /\ evaluator' = r.evaluator
       /\ repl' = [r.repl EXCEPT !.lines = @ + 1, !.line = trim(line)]
  /\ UNCHANGED <<outcome, lastCode, calls, loop, opt, compiled, engineB, runner, lexer, gen, parsing>>

ReplNext == \E line \in ReplLines : Line(line)

ReplSpec == ReplInit /\ [][ReplNext]_vars

\* a complete function definition on one line: def name(params) { ... }
OneLineDefinition(line) ==
  /\ startsWith(line, <<"d","e","f"," ">>)
  /\ endsWith(line, <<"}">>)
  /\ ~SyntaxError(line)

\* C15: a one-line function definition received outside multiline mode is
\* executed at once: it goes to the engine (and so to the history), its
\* result is printed, and the REPL stays in single-line mode with the prompt
\* lumos> , so that the next line is executed on its own
C15_OneLineDefinitionExecutes ==
  [][(~repl.inMultilineMode /\ repl'.lines = repl.lines + 1 /\ OneLineDefinition(repl'.line))
       => /\ ~repl'.inMultilineMode
          /\ repl'.prompt = "lumos> "
          /\ repl'.history = Append(repl.history, repl'.line)
          /\ Len(repl'.output) = Len(repl.output) + 1]_vars

(***************************************************************************)
(* Lexer.tokenize turn by turn: every input over a small alphabet          *)
(***************************************************************************)
MaxInput == 4

Alphabet == {"a", "e", "0", ".", "+", " ", "\n", "/", "*", "\"", "\\"}

Inputs == UNION {[1..n -> Alphabet] : n \in 0..MaxInput}

\* new Lexer(input) and the call of tokenize, for every input
LexInit ==
  /\ evaluator = Evaluator
  /\ outcome = NoOutcome
  /\ lastCode = <<>>
  /\ calls = 0
  /\ loop = NoLoop
  /\ opt = NoOpt
  /\ compiled = NoCompile
  /\ engineB = NoEngineB
  /\ runner = NoRun
  /\ repl = NoRepl
  /\ lexer \in {[pc |-> "loop", lx |-> Lexer(input), msg |-> ""] : input \in Inputs}
  /\ gen = NoGen
  /\ parsing = NoParse

\* one turn of the while loop of tokenize
TokenizeTurn ==
  /\ lexer.pc = "loop"
  /\ lexer.lx.position < Len(lexer.lx.input)
  /\ \E r \in {tokenizeStep(lexer.lx)} :
       lexer' = [pc |-> IF r.ok THEN "loop" ELSE "thrown", lx |-> r.lx, msg |-> r.msg]
  /\ UNCHANGED <<evaluator, outcome, lastCode, calls, loop, opt, compiled, engineB, runner, repl, gen, parsing>>

\* the loop has ended: the EOF token is pushed and the tokens are returned
TokenizeReturn ==
  /\ lexer.pc = "loop"
  /\ lexer.lx.position >= Len(lexer.lx.input)
  /\ lexer' = [lexer EXCEPT !.pc = "returned",
                            !.lx.tokens = Append(@, Token("EOF", Null, lexer.lx.line, lexer.lx.column))]
  /\ UNCHANGED <<evaluator, outcome, lastCode, calls, loop, opt, compiled, engineB, runner, repl, gen, parsing>>

LexNext == TokenizeTurn \/ TokenizeReturn

LexSpec == LexInit /\ [][LexNext]_vars

\* the line and the column of the character at a 0-based offset
LineAt(input, offset) == 1 + Cardinality({k \in 1..offset : input[k] = "\n"})
ColumnAt(input, offset) ==
  offset + 1 - (IF \E k \in 1..offset : input[k] = "\n"
                THEN CHOOSE k \in 1..offset : input[k] = "\n" /\ \A j \in (k + 1)..offset : input[j] # "\n"
                ELSE 0)

\* the characters text is a lexeme of the token
LexemeOf(text, token) ==
  /\ text # <<>>
  /\ \/ /\ token.type = "NUMBER"
        /\ text[1] \in Digits
        /\ \A k \in 1..Len(text) : text[k] \in Digits \cup {".", "e", "E", "+", "-"}
     \/ /\ token.type = "STRING"
        /\ Len(text) >= 2
        /\ text[1] \in {"\"", "'"}
        /\ text[Len(text)] = text[1]
     \/ /\ token.type \notin {"NUMBER", "STRING", "EOF"}
        /\ token.value = substring(text, 0, Len(text))

\* the characters text are a comment
Comment(text, atEnd) ==
  /\ Len(text) >= 2
  /\ text[1] = "/"
  /\ \/ text[2] = "/" /\ \A k \in 1..Len(text) : text[k] # "\n"
     \/ /\ text[2] = "*"
        /\ atEnd \/ (Len(text) >= 4 /\ text[Len(text) - 1] = "*" /\ text[Len(text)] = "/")

\* the characters from offset from to offset to are whitespace and then
\* the lexeme of the one token pushed, or whitespace and then a comment
\* with no token pushed, or whitespace up to the end of the input
ConsumedOnce(input, from, to, pushed) ==
  \E start \in from..to :
    /\ \A k \in (from + 1)..start : input[k] \in Whitespace
    /\ \/ /\ Len(pushed) = 1
          /\ LexemeOf(SubSeq(input, start + 1, to), pushed[1])
          /\ pushed[1].line = LineAt(input, start)
          /\ pushed[1].column = ColumnAt(input, start)
       \/ /\ pushed = <<>>
          /\ Comment(SubSeq(input, start + 1, to), to = Len(input))
       \/ /\ pushed = <<>>
          /\ start = to
          /\ to = Len(input)

\* C16: when tokenize succeeds every character is consumed exactly once:
\* each turn of the loop moves on from where the turn before stopped, over
\* whitespace and then either the lexeme of the one token it pushes or a
\* comment; the tokens are pushed in source order; the call returns at the
\* end of the input with one EOF token, the last and the only one
C16_EveryCharacterConsumedOnce ==
  [][/\ (lexer.pc = "loop" /\ lexer'.pc = "loop") =>
          /\ lexer'.lx.position > lexer.lx.position
          /\ lexer'.lx.position <= Len(lexer.lx.input)
          /\ Len(lexer'.lx.tokens) <= Len(lexer.lx.tokens) + 1
          /\ SubSeq(lexer'.lx.tokens, 1, Len(lexer.lx.tokens)) = lexer.lx.tokens
          /\ ConsumedOnce(lexer.lx.input, lexer.lx.position, lexer'.lx.position,
                          SubSeq(lexer'.lx.tokens, Len(lexer.lx.tokens) + 1, Len(lexer'.lx.tokens)))
     /\ lexer'.pc = "returned" =>
          /\ lexer.lx.position = Len(lexer.lx.input)
          /\ lexer'.lx.position = lexer.lx.position
          /\ lexer'.lx.tokens[Len(lexer'.lx.tokens)].type = "EOF"
          /\ SubSeq(lexer'.lx.tokens, 1, Len(lexer.lx.tokens)) = lexer.lx.tokens
          /\ Len(lexer'.lx.tokens) = Len(lexer.lx.tokens) + 1
          /\ \A k \in 1..Len(lexer.lx.tokens) : lexer.lx.tokens[k].type # "EOF"]_vars

\* tokenize has returned from an input with two tokens and a comment, the
\* EOF token after them
C16_Witness ==
  /\ lexer.pc = "returned"
  /\ Len(lexer.lx.tokens) = 3
  /\ \E k \in 1..(Len(lexer.lx.input) - 1) :
       lexer.lx.input[k] = "/" /\ lexer.lx.input[k + 1] \in {"/", "*"}

\* what tokenize returns is what the turns of its loop have pushed
C16_TurnsMakeTokenize ==
  lexer.pc = "returned" =>
    /\ tokenize(lexer.lx.input).ok
    /\ tokenize(lexer.lx.input).tokens = lexer.lx.tokens

\* C17: a return, break or continue signal raised in the try block of a try
\* statement is not handled by its catch clause: the catch bodies of h and
\* of the two loops (print(3), print(4), print(5)) never run, h() yields the
\* 1 its try block returns, and the continue skips the print(6) after the
\* try statement
C17_SignalsPassCatchClause ==
  /\ \A k \in 1..Len(evaluator.console) :
       evaluator.console[k] \notin {<<Num(3)>>, <<Num(4)>>, <<Num(5)>>, <<Num(6)>>}
  /\ (lastCode = SrcReturnInTry /\ outcome.kind = "value") => outcome.val = Num(1)

\* C18: a return statement at program top level ends the evaluation of the
\* execute call without execute raising an error
C18_TopLevelReturnRaisesNothing ==
  lastCode = SrcTopLevelReturn => outcome.kind = "value"

\* C19: and/or short-circuit: false && (l = 1) leaves l at 0 and yields
\* false, 5 or (o = 1) leaves o at 0 and yields 5
C19_LogicalOperatorsShortCircuit ==
  /\ lastCode = SrcAndAssigns =>
       /\ outcome.kind = "value"
       /\ GetProperty(evaluator, evaluator.currentScope, "m") = Bool(FALSE)
       /\ GetProperty(evaluator, evaluator.currentScope, "l") = Num(0)
  /\ lastCode = SrcOrAssigns =>
       /\ outcome.kind = "value"
       /\ GetProperty(evaluator, evaluator.currentScope, "p") = Num(5)
       /\ GetProperty(evaluator, evaluator.currentScope, "o") = Num(0)

\* the result of and/or is the value of the operand that decided, not a
\* coerced boolean
C19_ResultIsDecidingOperand ==
  /\ (lastCode = SrcAndAssigns /\ outcome.kind = "value")
        => GetProperty(evaluator, evaluator.currentScope, "m") = Bool(FALSE)
  /\ (lastCode = SrcOrAssigns /\ outcome.kind = "value")
        => GetProperty(evaluator, evaluator.currentScope, "p") = Num(5)

\* C20: every scope a function call, a for-loop, a catch clause or a class
\* declaration pushes is popped when the construct exits: after an execute
\* call has returned or raised, the current scope is the global scope
C20_CurrentScopeIsGlobalAfterExecute ==
  outcome.kind \in {"value", "error"} => evaluator.currentScope = globalScope

(***************************************************************************)
(* Scopes: calls, loops and assignments on one engine                      *)
(***************************************************************************)
\* def g() { return q } def k(a) { let q = a return g() } k(1)
SrcCallerLocal ==
  <<"d","e","f"," ","g","(",")"," ","{"," ","r","e","t","u","r","n"," ","q"," ","}"," ","d","e","f"," ","k","(","a",")"," ","{"," ","l","e","t"," ","q"," ","="," ","a"," ","r","e","t","u","r","n"," ","g","(",")"," ","}"," ","k","(","1",")">>
\* def g() { return valueOf } def k() { let valueOf = 1 return g() } k()
SrcCallerLocalValueOf ==
  <<"d","e","f"," ","g","(",")"," ","{"," ","r","e","t","u","r","n"," ","v","a","l","u","e","O","f"," ","}"," ","d","e","f"," ","k","(",")"," ","{"," ","l","e","t"," ","v","a","l","u","e","O","f"," ","="," ","1"," ","r","e","t","u","r","n"," ","g","(",")"," ","}"," ","k","(",")">>
\* def f() { return late } let late = 3 f()
SrcLateBinding ==
  <<"d","e","f"," ","f","(",")"," ","{"," ","r","e","t","u","r","n"," ","l","a","t","e"," ","}"," ","l","e","t"," ","l","a","t","e"," ","="," ","3"," ","f","(",")">>

\* for j = 1 to 2 { if (j == 1) { let d = 5 } else { print(d) } }
SrcLoopDeclares ==
  <<"f","o","r"," ","j"," ","="," ","1"," ","t","o"," ","2"," ","{"," ","i","f"," ","(","j"," ","=","="," ","1",")"," ","{"," ","l","e","t"," ","d"," ","="," ","5"," ","}"," ","e","l","s","e"," ","{"," ","p","r","i","n","t","(","d",")"," ","}"," ","}">>
\* for j = 1 to 2 { if (j == 1) { def a() { return j } } else { def b() { return j } print(a() + b()) } }
SrcLoopFunctions ==
  <<"f","o","r"," ","j"," ","="," ","1"," ","t","o"," ","2"," ","{"," ","i","f"," ","(","j"," ","=","="," ","1",")"," ","{"," ","d","e","f"," ","a","(",")"," ","{"," ","r","e","t","u","r","n"," ","j"," ","}"," ","}"," ","e","l","s","e"," ","{"," ","d","e","f"," ","b","(",")"," ","{"," ","r","e","t","u","r","n"," ","j"," ","}"," ","p","r","i","n","t","(","a","(",")"," ","+"," ","b","(",")",")"," ","}"," ","}">>
\* for j = 1 to 3 { let d = j if (j == 2) { break } }
SrcLoopBreak ==
  <<"f","o","r"," ","j"," ","="," ","1"," ","t","o"," ","3"," ","{"," ","l","e","t"," ","d"," ","="," ","j"," ","i","f"," ","(","j"," ","=","="," ","2",")"," ","{"," ","b","r","e","a","k"," ","}"," ","}">>
\* let v = 5 print(v -= 2, v) print(v *= 4, v) print(v /= 3, v) print(v += 1, v)
SrcCompoundIdentifier ==
  <<"l","e","t"," ","v"," ","="," ","5"," ","p","r","i","n","t","(","v"," ","-","="," ","2",","," ","v",")"," ","p","r","i","n","t","(","v"," ","*","="," ","4",","," ","v",")"," ","p","r","i","n","t","(","v"," ","/","="," ","3",","," ","v",")"," ","p","r","i","n","t","(","v"," ","+","="," ","1",","," ","v",")">>
\* let o = {p: 5} print(o.p += 2, o.p)
SrcCompoundMember ==
  <<"l","e","t"," ","o"," ","="," ","{","p",":"," ","5","}"," ","p","r","i","n","t","(","o",".","p"," ","+","="," ","2",","," ","o",".","p",")">>
\* let r = {p: 5} print(r["p"] += 2, r["p"])
SrcCompoundIndex ==
  <<"l","e","t"," ","r"," ","="," ","{","p",":"," ","5","}"," ","p","r","i","n","t","(","r","[","\"","p","\"","]"," ","+","="," ","2",","," ","r","[","\"","p","\"","]",")">>
\* let w = 0 / 0 print(w += 1, w)
SrcCompoundNaN ==
  <<"l","e","t"," ","w"," ","="," ","0"," ","/"," ","0"," ","p","r","i","n","t","(","w"," ","+","="," ","1",","," ","w",")">>
\* let m = 1 def fm() { m = 2 def hm() { return m } return hm() } print(fm(), m)
SrcAssignInCall ==
  <<"l","e","t"," ","m"," ","="," ","1"," ","d","e","f"," ","f","m","(",")"," ","{"," ","m"," ","="," ","2"," ","d","e","f"," ","h","m","(",")"," ","{"," ","r","e","t","u","r","n"," ","m"," ","}"," ","r","e","t","u","r","n"," ","h","m","(",")"," ","}"," ","p","r","i","n","t","(","f","m","(",")",","," ","m",")">>
\* let c = 0 for i = 1 to 2 { c += 5 print(c) } print(c)
SrcAssignInLoop ==
  <<"l","e","t"," ","c"," ","="," ","0"," ","f","o","r"," ","i"," ","="," ","1"," ","t","o"," ","2"," ","{"," ","c"," ","+","="," ","5"," ","p","r","i","n","t","(","c",")"," ","}"," ","p","r","i","n","t","(","c",")">>
\* let h = 1 try { u } catch (e) { h = 2 print(h) } print(h)
SrcAssignInCatch ==
  <<"l","e","t"," ","h"," ","="," ","1"," ","t","r","y"," ","{"," ","u"," ","}"," ","c","a","t","c","h"," ","(","e",")"," ","{"," ","h"," ","="," ","2"," ","p","r","i","n","t","(","h",")"," ","}"," ","p","r","i","n","t","(","h",")">>
\* def bq() { break } let k = 0 while (k < 3) { k = k + 1 if (k == 2) { bq() } print(k) } print(k)
SrcBreakThroughCall ==
  <<"d","e","f"," ","b","q","(",")"," ","{"," ","b","r","e","a","k"," ","}"," ","l","e","t"," ","k"," ","="," ","0"," ","w","h","i","l","e"," ","(","k"," ","<"," ","3",")"," ","{"," ","k"," ","="," ","k"," ","+"," ","1"," ","i","f"," ","(","k"," ","=","="," ","2",")"," ","{"," ","b","q","(",")"," ","}"," ","p","r","i","n","t","(","k",")"," ","}"," ","p","r","i","n","t","(","k",")">>
\* def cq() { continue } for i = 1 to 3 { if (i == 2) { cq() } print(i) }
SrcContinueThroughCall ==
  <<"d","e","f"," ","c","q","(",")"," ","{"," ","c","o","n","t","i","n","u","e"," ","}"," ","f","o","r"," ","i"," ","="," ","1"," ","t","o"," ","3"," ","{"," ","i","f"," ","(","i"," ","=","="," ","2",")"," ","{"," ","c","q","(",")"," ","}"," ","p","r","i","n","t","(","i",")"," ","}">>
\* def bq() { break } def cb() { bq() print(9) } for i = 1 to 3 { print(i) cb() } print(0)
SrcBreakThroughTwoCalls ==
  <<"d","e","f"," ","b","q","(",")"," ","{"," ","b","r","e","a","k"," ","}"," ","d","e","f"," ","c","b","(",")"," ","{"," ","b","q","(",")"," ","p","r","i","n","t","(","9",")"," ","}"," ","f","o","r"," ","i"," ","="," ","1"," ","t","o"," ","3"," ","{"," ","p","r","i","n","t","(","i",")"," ","c","b","(",")"," ","}"," ","p","r","i","n","t","(","0",")">>
\* def cq() { continue } let k = 0 while (k < 3) { k = k + 1 if (k == 2) { cq() } print(k) }
SrcContinueInWhile ==
  <<"d","e","f"," ","c","q","(",")"," ","{"," ","c","o","n","t","i","n","u","e"," ","}"," ","l","e","t"," ","k"," ","="," ","0"," ","w","h","i","l","e"," ","(","k"," ","<"," ","3",")"," ","{"," ","k"," ","="," ","k"," ","+"," ","1"," ","i","f"," ","(","k"," ","=","="," ","2",")"," ","{"," ","c","q","(",")"," ","}"," ","p","r","i","n","t","(","k",")"," ","}">>
\* def bq() { break } bq()
SrcBreakNoLoop ==
  <<"d","e","f"," ","b","q","(",")"," ","{"," ","b","r","e","a","k"," ","}"," ","b","q","(",")">>
\* def cq() { continue } cq()
SrcContinueNoLoop ==
  <<"d","e","f"," ","c","q","(",")"," ","{"," ","c","o","n","t","i","n","u","e"," ","}"," ","c","q","(",")">>

ScopeSources ==
  {SrcLetX, SrcLoopError, SrcCallerLocal, SrcCallerLocalValueOf, SrcLateBinding,
   SrcLoopDeclares, SrcLoopFunctions, SrcLoopBreak}

\* programs that assign: compound forms on the three kinds of target, and
\* assignments inside a call, a for-loop and a catch clause
AssignSources ==
  {SrcLoopError, SrcCompoundIdentifier, SrcCompoundMember, SrcCompoundIndex, SrcCompoundNaN,
   SrcAssignInCall, SrcAssignInLoop, SrcAssignInCatch}

AssignNext == \E code \in AssignSources : Execute(code)

AssignSpec == Init /\ [][AssignNext]_vars

\* programs whose functions raise break and continue
SignalSources ==
  {SrcLoopError, SrcBreakThroughCall, SrcContinueThroughCall, SrcBreakThroughTwoCalls,
   SrcContinueInWhile, SrcBreakNoLoop, SrcContinueNoLoop}

SignalNext == \E code \in SignalSources : Execute(code)

SignalSpec == Init /\ [][SignalNext]_vars

ScopeNext == \E code \in ScopeSources : Execute(code)

ScopeSpec == Init /\ [][ScopeNext]_vars

\* C21: function calls are scoped lexically: q and valueOf, local to the
\* caller k and not on the chain of the callee g, are not visible in g, and
\* referencing them raises the undefined-variable error; late, bound in the
\* defining scope after f was declared, is visible to the later call
C21_CallsAreLexicallyScoped ==
  /\ lastCode = SrcCallerLocal =>
       (outcome.kind = "error" /\ outcome.message = "Lumos Execution Error: Undefined variable: q")
  /\ lastCode = SrcCallerLocalValueOf =>
       (outcome.kind = "error" /\ outcome.message = "Lumos Execution Error: Undefined variable: valueOf")
  /\ lastCode = SrcLateBinding => (outcome.kind = "value" /\ outcome.val = Num(3))

\* with a name Object.prototype does not have, the caller's local is not
\* visible in the callee and the reference raises
C21_OrdinaryNameRaises ==
  /\ lastCode = SrcCallerLocal =>
       (outcome.kind = "error" /\ outcome.message = "Lumos Execution Error: Undefined variable: q")
  /\ lastCode = SrcLateBinding => (outcome.kind = "value" /\ outcome.val = Num(3))

\* C22: a for-loop has one scope for all its iterations: d, declared in the
\* first iteration, is bound at 5 in the second; a and b, declared in
\* different iterations, read the same j (2 + 2); and after the loop has
\* ended, by its test or by break, j, d, a and b are not bound in the
\* enclosing scope
C22_LoopSharesOneScope ==
  /\ lastCode = SrcLoopDeclares =>
       /\ outcome.kind = "value"
       /\ evaluator.console[Len(evaluator.console)] = <<Num(5)>>
  /\ lastCode = SrcLoopFunctions =>
       /\ outcome.kind = "value"
       /\ evaluator.console[Len(evaluator.console)] = <<Num(4)>>
  /\ lastCode = SrcLoopBreak => outcome.kind = "value"
  /\ lastCode \in {SrcLoopDeclares, SrcLoopFunctions, SrcLoopBreak} =>
       \A name \in {"j", "d", "a", "b"} : ~HasProperty(evaluator, evaluator.currentScope, name)

\* a loop left by break in its second iteration: its scope holds j = 2 and
\* the d declared in the body
C22_Witness ==
  /\ lastCode = SrcLoopBreak
  /\ outcome.kind = "value"
  /\ \E k \in 1..Len(evaluator.heap) :
       /\ k # evaluator.currentScope
       /\ DOMAIN evaluator.heap[k].vars = {"j", "d"}
       /\ evaluator.heap[k].vars["j"] = Num(2)
       /\ evaluator.heap[k].vars["d"] = Num(2)

\* the names an instruction reads as operands (a label's arg1 is its own name)
OperandNames(inst) ==
  {v \in {inst.arg2} \cup (IF inst.op = "label" THEN {} ELSE {inst.arg1}) : IsName(v)}

\* the instruction computes a result (the result of a jump is its target)
HasResult(inst) == inst.op \notin {"label", "goto", "if_false"} /\ IsName(inst.result)

\* C23: the output of dead-code elimination holds no instruction whose
\* result no instruction of the sequence reads as an operand, and no label
\* that no goto or if_false of the sequence jumps to
C23_NoUnreadResultNoUntargetedLabel ==
  opt.pass = "deadCodeElimination" =>
    \A k \in 1..Len(opt.ir) :
      /\ HasResult(opt.ir[k]) =>
           \E j \in 1..Len(opt.input) : opt.ir[k].result \in OperandNames(opt.input[j])
      /\ opt.ir[k].op = "label" =>
           \E j \in 1..Len(opt.input) :
             opt.input[j].op \in {"goto", "if_false"} /\ opt.input[j].result = opt.ir[k].arg1

\* what the pass does instead: every instruction that has a result and
\* every label named by a string is in the output, read and targeted or not
C23_EveryResultAndNamedLabelIsKept ==
  opt.pass = "deadCodeElimination" =>
    \A j \in 1..Len(opt.input) :
      (HasResult(opt.input[j]) \/ (opt.input[j].op = "label" /\ IsName(opt.input[j].arg1)))
        => \E k \in 1..Len(opt.ir) : opt.ir[k] = opt.input[j]

(***************************************************************************)
(* The IRGenerator as a state machine: generate visits the statements of   *)
(* a program in order                                                      *)
(***************************************************************************)
MaxStatements == 2

\* a; 1; a + 1; a || b; -a; f(a, 1); a.b; [a]; {k: a}; a = 1; o.p = 1;
\* f(g(a), a + 1)
GenExpressions ==
  {Identifier("a"),
   Literal(Num(1)),
   BinaryExpression(Identifier("a"), "+", Literal(Num(1))),
   LogicalExpression("||", Identifier("a"), Identifier("b")),
   UnaryExpression("-", Identifier("a")),
   CallExpression(Identifier("f"), <<Identifier("a"), Literal(Num(1))>>),
   MemberExpression(Identifier("a"), Identifier("b"), FALSE),
   ArrayExpression(<<Identifier("a")>>),
   ObjectExpression(<<PropertyNode("k", Identifier("a"))>>),
   AssignmentExpression(Identifier("a"), Literal(Num(1))),
   AssignmentExpression(MemberExpression(Identifier("o"), Identifier("p"), FALSE), Literal(Num(1))),
   CallExpression(Identifier("f"),
                  <<CallExpression(Identifier("g"), <<Identifier("a")>>),
                    BinaryExpression(Identifier("a"), "+", Literal(Num(1)))>>)}

\* let t0 = 1; let y = t0 + 2
TemporaryNamed ==
  {VariableDeclaration("t0", Literal(Num(1))),
   VariableDeclaration("y", BinaryExpression(Identifier("t0"), "+", Literal(Num(2))))}

\* for i = 1 to 3 { f(i) }
ForCallsF ==
  ForStatement("i", Literal(Num(1)), Literal(Num(3)),
               <<ExpressionStatement(CallExpression(Identifier("f"), <<Identifier("i")>>))>>)

\* let c = -a; let u; for i = 1 to 3 { f(i) }; while (a < 3) { a = a + 1 };
\* if (a) { return a } else { return }; def f(x) { return x + 1 }
GenStatements ==
  {ExpressionStatement(e) : e \in GenExpressions}
    \cup TemporaryNamed
    \cup {VariableDeclaration("c", UnaryExpression("-", Identifier("a"))),
          VariableDeclaration("u", NullNode),
          ForCallsF,
          WhileStatement(BinaryExpression(Identifier("a"), "<", Literal(Num(3))),
                         <<ExpressionStatement(AssignmentExpression(Identifier("a"),
                             BinaryExpression(Identifier("a"), "+", Literal(Num(1)))))>>),
          IfStatement(Identifier("a"), <<ReturnStatement(Identifier("a"))>>,
                      BlockStatement(<<ReturnStatement(NullNode)>>)),
          FunctionDeclaration("f", <<Identifier("x")>>,
                              <<ReturnStatement(BinaryExpression(Identifier("x"), "+", Literal(Num(1))))>>)}

Programs == UNION {[1..n -> GenStatements] : n \in 1..MaxStatements}

GenInit ==
  /\ evaluator = Evaluator
  /\ outcome = NoOutcome
  /\ lastCode = <<>>
  /\ calls = 0
  /\ loop = NoLoop
  /\ opt = NoOpt
  /\ compiled = NoCompile
  /\ engineB = NoEngineB
  /\ runner = NoRun
  /\ repl = NoRepl
  /\ lexer = NoLexer
  /\ gen = NoGen
  /\ parsing = NoParse

\* generateIR: a new IRGenerator is made for the program
GenerateIR(program) ==
  /\ gen.pc = "idle"
  /\ gen' = [pc |-> "visiting", program |-> program, next |-> 1, g |-> IRGenerator,
             from |-> 0, val |-> Null]
  /\ UNCHANGED <<evaluator, outcome, lastCode, calls, loop, opt, compiled, engineB, runner, repl, lexer, parsing>>

\* one turn of visitProgram's forEach: from is the number of instructions
\* before the turn, val what visitNode returned
VisitStatement ==
  /\ gen.pc = "visiting"
  /\ LET v == visitNode(gen.program[gen.next], gen.g)
     IN gen' = [gen EXCEPT !.pc = IF gen.next = Len(gen.program) THEN "done" ELSE "visiting",
                           !.next = @ + 1,
                           !.g = v.g,
                           !.from = Len(gen.g.instructions),
                           !.val = v.val]
  /\ UNCHANGED <<evaluator, outcome, lastCode, calls, loop, opt, compiled, engineB, runner, repl, lexer, parsing>>

GenNext ==
  \/ \E program \in Programs : GenerateIR(program)
  \/ VisitStatement

GenSpec == GenInit /\ [][GenNext]_vars

\* the statement visited last, when one has been visited
VisitedLast == gen.program[gen.next - 1]

\* the instructions in which arg1, and for the binary operators arg2, is
\* the value of a subexpression
ValueOps == {"assign", "push", "call", "if_false"}

BinaryOps == ArithmeticOps \cup {"==", "!=", "<", "<=", ">", ">=", "&&", "||"}

\* C24: every expression the Parser makes (identifier, literal, binary,
\* logical, unary, call, member, array, object, assignment) is lowered to
\* one operand that is not null, and no instruction emitted has null where
\* the value of a subexpression stands
C24_EveryExpressionYieldsAnOperand ==
  gen.next > 1 =>
    /\ VisitedLast.type = "ExpressionStatement" => gen.val \notin {Null, Undefined}
    /\ \A k \in 1..Len(gen.g.instructions) :
         LET inst == gen.g.instructions[k]
         IN /\ inst.op \in ValueOps \cup BinaryOps => inst.arg1 # Null
            /\ inst.op \in BinaryOps => inst.arg2 # Null

\* the expressions IRGenerator has a visitor for, down to their leaves
RECURSIVE Lowered(_)
Lowered(node) ==
  CASE node.type \in {"Identifier", "Literal"} -> TRUE
    [] node.type = "BinaryExpression" -> Lowered(node.left) /\ Lowered(node.right)
    [] node.type = "CallExpression" ->
         Lowered(node.callee) /\ \A k \in 1..Len(node.arguments) : Lowered(node.arguments[k])
    [] node.type = "AssignmentExpression" -> node.left.type = "Identifier" /\ Lowered(node.right)
    [] OTHER -> FALSE

\* identifiers, literals, binary expressions, calls and assignments to an
\* identifier do yield an operand
C24_VisitedKindsYieldAnOperand ==
  (gen.next > 1 /\ VisitedLast.type = "ExpressionStatement" /\ Lowered(VisitedLast.expression))
    => gen.val \notin {Null, Undefined}

\* the temporaries newTemp has handed out
Temporaries == {Str("t" \o NatString(k)) : k \in 0..(gen.g.nextTemp - 1)}

Producers(t) ==
  {k \in 1..Len(gen.g.instructions) :
     HasResult(gen.g.instructions[k]) /\ gen.g.instructions[k].result = t}

Readers(t) ==
  {k \in 1..Len(gen.g.instructions) :
     /\ gen.g.instructions[k].op \notin {"function", "param"}
     /\ t \in OperandNames(gen.g.instructions[k])}

SingleAssignment ==
  \A t \in Temporaries :
    /\ Cardinality(Producers(t)) = 1
    /\ \A p \in Producers(t) : \A r \in Readers(t) : p < r

\* C25: in the instructions generated for any program, whatever its
\* identifiers, every temporary t0, t1, ... is the result of exactly one
\* instruction, which comes before every instruction that reads it
C25_TemporariesAssignedOnce == SingleAssignment

\* it holds for the programs that name nothing as a temporary is named
C25_AssignedOnceWithoutTemporaryNames ==
  (\A k \in 1..Len(gen.program) : gen.program[k] \notin TemporaryNamed) => SingleAssignment

\* the instructions emitted for the statement visited last
Emitted == SubSeq(gen.g.instructions, gen.from + 1, Len(gen.g.instructions))

\* the number of label instructions that carry the name
LabelCount(name) ==
  Cardinality({k \in 1..Len(gen.g.instructions) :
                 gen.g.instructions[k].op = "label" /\ gen.g.instructions[k].arg1 = name})

\* initialisation, start-label, test, if_false to the end-label, ..., goto
\* start-label, end-label, each label once in the stream
LoopShape(seg, variable) ==
  /\ Len(seg) >= 6
  /\ seg[1].op = "assign" /\ seg[1].result = variable
  /\ seg[2].op = "label"
  /\ seg[3].op = "<=" /\ seg[3].arg1 = variable
  /\ seg[4] = Instruction("if_false", seg[3].result, Null, seg[Len(seg)].arg1)
  /\ seg[Len(seg) - 1] = Instruction("goto", Null, Null, seg[2].arg1)
  /\ seg[Len(seg)].op = "label"
  /\ seg[2].arg1 # seg[Len(seg)].arg1
  /\ LabelCount(seg[2].arg1) = 1
  /\ LabelCount(seg[Len(seg)].arg1) = 1

\* an instruction after the test and before the back-jump writes the variable
Updates(seg, variable) ==
  \E k \in 5..(Len(seg) - 2) : HasResult(seg[k]) /\ seg[k].result = variable

\* C26: the instructions of a for-loop are: initialisation of the loop
\* variable, start-label, test, if_false to the end-label, body, an update
\* that writes the loop variable, goto start-label, end-label; both labels
\* are emitted exactly once
C26_ForLoopShape ==
  (gen.next > 1 /\ VisitedLast.type = "ForStatement") =>
    /\ LoopShape(Emitted, Str(VisitedLast.init.declarations[1].id.name))
    /\ Updates(Emitted, Str(VisitedLast.init.declarations[1].id.name))

\* the shape is the one stated but for the update: nothing between the
\* test and the back-jump writes the loop variable
C26_ForLoopHasNoUpdate ==
  (gen.next > 1 /\ VisitedLast = ForCallsF) =>
    /\ LoopShape(Emitted, Str("i"))
    /\ ~Updates(Emitted, Str("i"))

(***************************************************************************)
(* The Parser on expressions: token sequences, and the reference grammar   *)
(***************************************************************************)
\* the lexeme of the operator and delimiter tokens
Lexeme ==
  [type \in {"ASSIGN", "PLUS_ASSIGN", "MINUS_ASSIGN", "MULT_ASSIGN", "DIV_ASSIGN", "OR", "AND",
             "EQ", "NEQ", "GT", "GTE", "LT", "LTE", "PLUS", "MINUS", "MULT", "DIV", "MOD",
             "NOT", "LPAREN", "RPAREN", "LBRACKET", "RBRACKET", "DOT", "COMMA", "EOF"} |->
     CASE type = "ASSIGN" -> "=" [] type = "PLUS_ASSIGN" -> "+=" [] type = "MINUS_ASSIGN" -> "-="
       [] type = "MULT_ASSIGN" -> "*=" [] type = "DIV_ASSIGN" -> "/=" [] type = "OR" -> "||"
       [] type = "AND" -> "&&" [] type = "EQ" -> "==" [] type = "NEQ" -> "!=" [] type = "GT" -> ">"
       [] type = "GTE" -> ">=" [] type = "LT" -> "<" [] type = "LTE" -> "<=" [] type = "PLUS" -> "+"
       [] type = "MINUS" -> "-" [] type = "MULT" -> "*" [] type = "DIV" -> "/" [] type = "MOD" -> "%"
       [] type = "NOT" -> "!" [] type = "LPAREN" -> "(" [] type = "RPAREN" -> ")"
       [] type = "LBRACKET" -> "[" [] type = "RBRACKET" -> "]" [] type = "DOT" -> "."
       [] type = "COMMA" -> "," [] type = "EOF" -> ""]

Op(type) == Token(type, Lexeme[type], 1, 1)

Name(name) == Token("IDENTIFIER", name, 1, 1)

AssignmentTypes == {"ASSIGN", "PLUS_ASSIGN", "MINUS_ASSIGN", "MULT_ASSIGN", "DIV_ASSIGN"}

\* the level of a binary operator in the reference grammar, lowest first
Level(type) ==
  CASE type \in AssignmentTypes -> 1
    [] type = "OR" -> 2
    [] type = "AND" -> 3
    [] type \in {"EQ", "NEQ"} -> 4
    [] type \in {"GT", "GTE", "LT", "LTE"} -> 5
    [] type \in {"PLUS", "MINUS"} -> 6
    [] type \in {"MULT", "DIV", "MOD"} -> 7
    [] OTHER -> 0

\* the reference grammar, by precedence climbing: an operand, then every
\* operator of level min or higher; the right operand of a left-associative
\* operator holds only higher levels, that of an assignment any level
RECURSIVE RefExpression(_, _, _), RefOperators(_, _, _, _), RefPrefix(_, _),
          RefPostfix(_, _, _), RefArguments(_, _, _)

RefArguments(ts, p, acc) ==
  Let(RefExpression(ts, p, 1), LAMBDA arg :
  IF ~arg.ok THEN arg
  ELSE IF check(ts, arg.pos, "COMMA") THEN RefArguments(ts, arg.pos + 1, Append(acc, arg.node))
  ELSE POk(Append(acc, arg.node), arg.pos))

RefPostfix(ts, p, expr) ==
  IF check(ts, p, "LPAREN")
  THEN Let(IF check(ts, p + 1, "RPAREN") THEN POk(<<>>, p + 1) ELSE RefArguments(ts, p + 1, <<>>),
           LAMBDA args :
       IF ~args.ok \/ ~check(ts, args.pos, "RPAREN") THEN PErr("call")
       ELSE RefPostfix(ts, args.pos + 1,
                       [type |-> "CallExpression", callee |-> expr, arguments |-> args.node]))
  ELSE IF check(ts, p, "LBRACKET")
  THEN Let(RefExpression(ts, p + 1, 1), LAMBDA index :
       IF ~index.ok \/ ~check(ts, index.pos, "RBRACKET") THEN PErr("index")
       ELSE RefPostfix(ts, index.pos + 1,
                       [type |-> "IndexExpression", object |-> expr, index |-> index.node]))
  ELSE IF check(ts, p, "DOT")
  THEN IF ~check(ts, p + 1, "IDENTIFIER") THEN PErr("member")
       ELSE RefPostfix(ts, p + 2, [type |-> "MemberExpression", object |-> expr,
                                   property |-> ts[p + 2].value])
  ELSE POk(expr, p)

RefPrefix(ts, p) ==
  IF isAtEnd(ts, p) THEN PErr("end")
  ELSE IF ts[p + 1].type \in {"NOT", "MINUS", "PLUS"}
  THEN Let(RefPrefix(ts, p + 1), LAMBDA operand :
       IF ~operand.ok THEN operand
       ELSE POk([type |-> "UnaryExpression", operator |-> ts[p + 1].value,
                 operand |-> operand.node], operand.pos))
  ELSE IF ts[p + 1].type = "IDENTIFIER"
  THEN RefPostfix(ts, p + 1, [type |-> "Identifier", name |-> ts[p + 1].value])
  ELSE IF ts[p + 1].type = "LPAREN"
  THEN Let(RefExpression(ts, p + 1, 1), LAMBDA inner :
       IF ~inner.ok \/ ~check(ts, inner.pos, "RPAREN") THEN PErr("parenthesis")
       ELSE RefPostfix(ts, inner.pos + 1, inner.node))
  ELSE PErr("operand")

RefOperators(ts, p, left, min) ==
  IF isAtEnd(ts, p) \/ Level(ts[p + 1].type) = 0 \/ Level(ts[p + 1].type) < min THEN POk(left, p)
  ELSE Let(Level(ts[p + 1].type), LAMBDA level :
       Let(RefExpression(ts, p + 1, IF level = 1 THEN 1 ELSE level + 1), LAMBDA right :
       IF ~right.ok THEN right
       ELSE RefOperators(ts, right.pos,
                         IF level = 1
                         THEN [type |-> "Assignment", target |-> left,
                               operator |-> ts[p + 1].value, value |-> right.node]
                         ELSE BinaryExpression(left, ts[p + 1].value, right.node),
                         min)))

RefExpression(ts, p, min) ==
  Let(RefPrefix(ts, p), LAMBDA left :
  IF ~left.ok THEN left ELSE RefOperators(ts, left.pos, left.node, min))

\* the operand forms on a name n: n; -n; +n; !n.p; n(q); n[q].p; (n = q);
\* -!n; n(q, r = s)()
Operands(n) ==
  {<<Name(n)>>,
   <<Op("MINUS"), Name(n)>>,
   <<Op("PLUS"), Name(n)>>,
   <<Op("NOT"), Name(n), Op("DOT"), Name("p")>>,
   <<Name(n), Op("LPAREN"), Name("q"), Op("RPAREN")>>,
   <<Name(n), Op("LBRACKET"), Name("q"), Op("RBRACKET"), Op("DOT"), Name("p")>>,
   <<Op("LPAREN"), Name(n), Op("ASSIGN"), Name("q"), Op("RPAREN")>>,
   <<Op("MINUS"), Op("NOT"), Name(n)>>,
   <<Name(n), Op("LPAREN"), Name("q"), Op("COMMA"), Name("r"), Op("ASSIGN"), Name("s"),
     Op("RPAREN"), Op("LPAREN"), Op("RPAREN")>>}

BinaryTypes ==
  AssignmentTypes \cup {"OR", "AND", "EQ", "NEQ", "GT", "GTE", "LT", "LTE", "PLUS", "MINUS",
                        "MULT", "DIV", "MOD"}

\* an operand; two operands and an operator; three operands and two
\* operators, the first being a or -a and the last c or !c.p
ExpressionInputs ==
  Operands("a")
    \cup {x \o <<Op(o)>> \o y : x \in Operands("a"), o \in BinaryTypes, y \in Operands("b")}
    \cup {x \o <<Op(o1)>> \o y \o <<Op(o2)>> \o z :
            x \in {<<Name("a")>>, <<Op("MINUS"), Name("a")>>},
            o1 \in BinaryTypes, y \in Operands("b"), o2 \in BinaryTypes,
            z \in {<<Name("c")>>, <<Op("NOT"), Name("c"), Op("DOT"), Name("p")>>}}

ParseInit ==
  /\ evaluator = Evaluator
  /\ outcome = NoOutcome
  /\ lastCode = <<>>
  /\ calls = 0
  /\ loop = NoLoop
  /\ opt = NoOpt
  /\ compiled = NoCompile
  /\ engineB = NoEngineB
  /\ runner = NoRun
  /\ repl = NoRepl
  /\ lexer = NoLexer
  /\ gen = NoGen
  /\ parsing = NoParse

\* new Parser(tokens).parse() on the tokens of an expression and EOF
Parse(tokens) ==
  /\ parsing.pc = "idle"
  /\ parsing' = [pc |-> "parsed", tokens |-> tokens, result |-> parse(Append(tokens, Op("EOF")))]
  /\ UNCHANGED <<evaluator, outcome, lastCode, calls, loop, opt, compiled, engineB, runner, repl, lexer, gen>>

ParseNext == \E tokens \in ExpressionInputs : Parse(tokens)

ParseSpec == ParseInit /\ [][ParseNext]_vars

\* the Program of one expression statement
ProgramOf(node) ==
  [type |-> "Program", statements |-> <<[type |-> "ExpressionStatement", expression |-> node]>>]

AssignOf(target, value) ==
  [type |-> "Assignment", target |-> target, operator |-> "=", value |-> value]

Ident(name) == [type |-> "Identifier", name |-> name]

\* C27: for every token sequence that forms an expression of the reference
\* grammar (levels, lowest first: assignment, logical-or, logical-and,
\* equality, relational, additive, multiplicative, unary prefix, postfix)
\* the Parser builds the tree the grammar defines; a = b = c is a = (b = c),
\* a - b - c is (a - b) - c, a - b * c is a - (b * c), and a(q, r = s)() is
\* the call of the call
C27_ParserFollowsReferenceGrammar ==
  parsing.pc = "parsed" =>
    /\ Let(RefExpression(parsing.tokens, 0, 1), LAMBDA ref :
         (ref.ok /\ ref.pos = Len(parsing.tokens))
           => (parsing.result.ok /\ parsing.result.node = ProgramOf(ref.node)))
    /\ parsing.tokens = <<Name("a"), Op("ASSIGN"), Name("b"), Op("ASSIGN"), Name("c")>>
         => parsing.result.node = ProgramOf(AssignOf(Ident("a"), AssignOf(Ident("b"), Ident("c"))))
    /\ parsing.tokens = <<Name("a"), Op("MINUS"), Name("b"), Op("MINUS"), Name("c")>>
         => parsing.result.node =
              ProgramOf(BinaryExpression(BinaryExpression(Ident("a"), "-", Ident("b")), "-", Ident("c")))
    /\ parsing.tokens = <<Name("a"), Op("MINUS"), Name("b"), Op("MULT"), Name("c")>>
         => parsing.result.node =
              ProgramOf(BinaryExpression(Ident("a"), "-", BinaryExpression(Ident("b"), "*", Ident("c"))))
    /\ parsing.tokens \in Operands("a") /\ Len(parsing.tokens) = 10
         => parsing.result.node =
              ProgramOf([type |-> "CallExpression",
                         callee |-> [type |-> "CallExpression", callee |-> Ident("a"),
                                     arguments |-> <<Ident("q"), AssignOf(Ident("r"), Ident("s"))>>],
                         arguments |-> <<>>])

\* C27 witness: a - b(q) - !c.p has been parsed to (a - b(q)) - (!(c.p))
C27_Witness ==
  /\ parsing.pc = "parsed"
  /\ parsing.result.ok
  /\ parsing.result.node =
       ProgramOf(BinaryExpression(
         BinaryExpression(Ident("a"), "-",
                          [type |-> "CallExpression", callee |-> Ident("b"),
                           arguments |-> <<Ident("q")>>]),
         "-",
         [type |-> "UnaryExpression", operator |-> "!",
          operand |-> [type |-> "MemberExpression", object |-> Ident("c"), property |-> "p"]]))

\* what the last call of print wrote
Printed == evaluator.console[Len(evaluator.console)]

\* C28: target op= v stores (previous value of target) op v and yields it,
\* for an identifier (5 - 2, then * 4, / 3, + 1; NaN + 1), a member o.p
\* (5 + 2) and an index r["p"] (5 + 2)
C28_CompoundAssignmentStoresPreviousOpValue ==
  /\ lastCode = SrcCompoundIdentifier => (outcome.kind = "value" /\ Printed = <<Num(5), Num(5)>>)
  /\ lastCode = SrcCompoundNaN => (outcome.kind = "value" /\ Printed = <<NaN, NaN>>)
  /\ lastCode = SrcCompoundMember => (outcome.kind = "value" /\ Printed = <<Num(7), Num(7)>>)
  /\ lastCode = SrcCompoundIndex => (outcome.kind = "value" /\ Printed = <<Num(7), Num(7)>>)

\* what the evaluator does: an identifier whose previous value is truthy
\* gets previous op v; one whose previous value is NaN is taken for 0; a
\* member or index target gets v, whatever the operator
C28_MemberAndIndexTargetsStoreOperand ==
  /\ lastCode = SrcCompoundIdentifier => (outcome.kind = "value" /\ Printed = <<Num(5), Num(5)>>)
  /\ lastCode = SrcCompoundNaN => (outcome.kind = "value" /\ Printed = <<Num(1), Num(1)>>)
  /\ lastCode = SrcCompoundMember => (outcome.kind = "value" /\ Printed = <<Num(2), Num(2)>>)
  /\ lastCode = SrcCompoundIndex => (outcome.kind = "value" /\ Printed = <<Num(2), Num(2)>>)

\* what the call of print before the last wrote
PrintedBefore == evaluator.console[Len(evaluator.console) - 1]

\* C29: an assignment to an identifier writes the current scope only: m = 2
\* in a function body is read as 2 in the body and in a function declared
\* there, and m of the enclosing scope stays 1; c += 5 in a for-loop body
\* counts in the loop's scope (5, 10) and leaves c of the enclosing scope 0;
\* h = 2 in a catch body is read as 2 there and h stays 1 outside
C29_AssignmentWritesOnlyCurrentScope ==
  /\ lastCode = SrcAssignInCall =>
       /\ outcome.kind = "value"
       /\ Printed = <<Num(2), Num(1)>>
       /\ GetProperty(evaluator, evaluator.currentScope, "m") = Num(1)
  /\ lastCode = SrcAssignInLoop =>
       /\ outcome.kind = "value"
       /\ PrintedBefore = <<Num(10)>>
       /\ Printed = <<Num(0)>>
       /\ GetProperty(evaluator, evaluator.currentScope, "c") = Num(0)
  /\ lastCode = SrcAssignInCatch =>
       /\ outcome.kind = "value"
       /\ PrintedBefore = <<Num(2)>>
       /\ Printed = <<Num(1)>>
       /\ GetProperty(evaluator, evaluator.currentScope, "h") = Num(1)

\* C29 witness: after the call that assigned m = 2 the scope of the call
\* holds m = 2 and the scope the program runs in holds m = 1
C29_Witness ==
  /\ lastCode = SrcAssignInCall
  /\ outcome.kind = "value"
  /\ evaluator.heap[evaluator.currentScope].vars["m"] = Num(1)
  /\ \E k \in 1..Len(evaluator.heap) :
       /\ evaluator.heap[k].proto = evaluator.currentScope
       /\ "m" \in DOMAIN evaluator.heap[k].vars
       /\ evaluator.heap[k].vars["m"] = Num(2)

\* the name is bound by the scope that is current itself
OwnBinding(name) == name \in DOMAIN evaluator.heap[evaluator.currentScope].vars

\* C30: a break or continue raised in a function body outside every loop
\* of the body passes the call, which restores the caller's scope, and is
\* handled by the loop the call was made in: break in bq ends the caller's
\* while loop at k = 2 and, through two calls, the caller's for loop after
\* its first turn; continue in cq skips the rest of the turn (for: 1, 3;
\* while: 1, 3); execute raises nothing then, and raises when no loop is
\* active
C30_SignalsPassTheCallBoundary ==
  /\ lastCode = SrcBreakThroughCall =>
       /\ outcome.kind = "value"
       /\ PrintedBefore = <<Num(1)>> /\ Printed = <<Num(2)>>
       /\ OwnBinding("bq")
  /\ lastCode = SrcBreakThroughTwoCalls =>
       /\ outcome.kind = "value"
       /\ PrintedBefore = <<Num(1)>> /\ Printed = <<Num(0)>>
       /\ OwnBinding("cb")
  /\ lastCode \in {SrcContinueThroughCall, SrcContinueInWhile} =>
       /\ outcome.kind = "value"
       /\ PrintedBefore = <<Num(1)>> /\ Printed = <<Num(3)>>
       /\ OwnBinding("cq")
  /\ lastCode = SrcBreakNoLoop =>
       /\ outcome.kind = "error" /\ outcome.message = "Lumos Execution Error: Break"
       /\ OwnBinding("bq")
  /\ lastCode = SrcContinueNoLoop =>
       /\ outcome.kind = "error" /\ outcome.message = "Lumos Execution Error: Continue"
       /\ OwnBinding("cq")

\* C30 witness: the for loop whose body called cb, which called bq, has
\* ended after its first turn: i is 1 in the loop's scope, 9 was not
\* printed and the statement after the loop has run
C30_Witness ==
  /\ lastCode = SrcBreakThroughTwoCalls
  /\ outcome.kind = "value"
  /\ Printed = <<Num(0)>>
  /\ \E k \in 1..Len(evaluator.heap) :
       /\ evaluator.heap[k].proto = evaluator.currentScope
       /\ DOMAIN evaluator.heap[k].vars = {"i"}
       /\ evaluator.heap[k].vars["i"] = Num(1)
====
